---- MODULE Spec2Model ----
(***************************************************************************)
(* Sentinel-2 composite pipeline (eatlas AU_NESP-MaC-3-17_AIMS_S2-comp).   *)
(* The module models, component by component:                             *)
(*   - TidePredictor.get_tide_elevation        (utilities/tidePredictor)  *)
(*   - NoisePredictor.filter_noise_adding_images (utilities/noise_predictor)*)
(*   - Sentinel2Processor.get_low_tide_composite, _create_composite,      *)
(*     mask_clouds and the two-pass cloud/shadow mask (processors)        *)
(*   - the chunked thread-pool loop of create-composite.py                *)
(* Each component has its own specification over the shared variables;    *)
(* the variables of the other components keep their initial value.        *)
(***************************************************************************)
EXTENDS Integers, Sequences, FiniteSets

VARIABLES
    \* TidePredictor.get_tide_elevation
    image_date_time,    \* the image time stamp, in minutes
    tide_curve,         \* the harmonic model's elevation at the times it is asked for
    tide_pc,            \* "call" | "returned"; "init" | "constructed" for __init__
    tide_result,        \* <<tide_data[1], tide_type>> as returned
    \* TidePredictor.__init__
    tile_water_centroids,   \* the rows of the water-centroid table
    tile_id,                \* the tile the predictor is constructed for
    hc                      \* self.hc

tideVars == <<image_date_time, tide_curve, tide_pc, tide_result,
              tile_water_centroids, tile_id, hc>>

VARIABLES
    \* NoisePredictor.filter_noise_adding_images
    noise_index,        \* noise_index of each image, in collection order (image id = position)
    min_images,         \* min_images_in_collection
    noise_pc,           \* "call" | "returned" | "raised"
    filtered_ids,       \* system:index of the images of filtered_list, in its order
    noise_value         \* NoisePredictor.calculate_image_noise: value of each image

noiseVars == <<noise_index, min_images, noise_pc, filtered_ids, noise_value>>

VARIABLES
    \* Sentinel2Processor.get_low_tide_composite
    lt_args,                \* [min_images_in_collection, max_images_in_collection, tide_type_focus]
    lt_pc,                  \* "orbit" (before the orbit's iteration) | "filter" | "composite"
    tide_properties_list,   \* the orbit's images: [time_start, curve], id = position
    tide_image_list,        \* the orbit's selected ids, as sliced at the end of the iteration
    filtered_collection     \* the ids of the images that pass the system:index filter

lowTideVars == <<lt_args, lt_pc, tide_properties_list, tide_image_list, filtered_collection>>

VARIABLES
    \* Sentinel2Processor._create_composite and mask_clouds
    composite_collection,   \* the images: [value, probability] rows over the pixels
    solar_azimuth,          \* the side the shadows fall to
    comp_pc,                \* "call" | "returned" | "raised"
    composite               \* the image returned: [bands, B, QA, cloudmask]

compositeVars == <<composite_collection, solar_azimuth, comp_pc, composite>>

VARIABLES
    \* Sentinel2Processor._add_s2_cloud_shadow_mask on one image
    s2cloudless,            \* the image's cloud probability row
    shadow_side,            \* the side the shadows fall to
    cloud_pc,               \* "call" | "returned" | "error"
    cloud_bands             \* [cloudmask, highcloudmask, lowcloudmask] rows

cloudVars == <<s2cloudless, shadow_side, cloud_pc, cloud_bands>>

VARIABLES
    \* create-composite.py: the chunked thread-pool loop
    main_pc,                \* where the main thread is
    chunk,                  \* index of the chunk being processed
    future,                 \* state of each tile's future
    yielded                 \* futures as_completed has handed to the main thread

poolVars == <<main_pc, chunk, future, yielded>>

VARIABLES
    \* download-aims-s2.py: main and DataDownloader.download
    max_retries,            \* self.max_retries
    tile_index,             \* downloaded_count: position of main in the tiles
    dl_pc,                  \* "main" | "loop" | "done"
    attempt,                \* attempt, of the download in progress
    fs,                     \* the file system: state of the path and the tmp_path of each tile
    fs_before,              \* the file system when the script started
    missing_tiles,          \* self.missing_tiles
    attempts                \* urlretrieve calls made so far, per tile

downloadVars == <<max_retries, tile_index, dl_pc, attempt, fs, fs_before, missing_tiles,
                  attempts>>

VARIABLES
    \* Sentinel2Processor.get_composite and get_low_tide_composite: the stages
    pl_function,            \* the method called
    correct_sunglint,       \* its argument correct_sunglint
    max_images,             \* max_images_in_collection of get_composite
    pl_candidates,          \* the images get_composite_collection finds
    pl_low_tide,            \* the images the tide selection of the tile picks
    pl_collection,          \* the images of composite_collection as it stands
    pl_corrected,           \* the images remove_sun_glint was mapped over
    pl_stages,              \* the stages run so far, in order
    pl_pc                   \* the stage to run next

pipelineVars == <<pl_function, correct_sunglint, max_images, pl_candidates, pl_low_tide,
                  pl_collection, pl_corrected, pl_stages, pl_pc>>

VARIABLES
    \* SunGlintHandler.filter_high_sun_glint_images
    glint_collection,       \* the images: [glinted, water] pixel counts, id = position
    glint_pc,               \* "call" | "returned"
    glint_filtered          \* the ids of the images of filtered_collection

glintVars == <<glint_collection, glint_pc, glint_filtered>>

VARIABLES
    \* Sentinel2Processor._add_s2_cloud_shadow_mask on two images
    image_pair,             \* the two images: [B8, s2cloudless, shadow_azimuth]
    pair_bands              \* the bands added to each, Null before the call

shadowVars == <<image_pair, pair_bands>>

VARIABLES
    \* Sentinel2Processor.export_to_cloud
    export_normalised,      \* normalised_image: a row of values, NoData where masked
    selected_vis_option,    \* the visualisation configuration
    export_pc,              \* "call" | "started"
    export_image            \* the row handed to Export.image.toCloudStorage

exportVars == <<export_normalised, selected_vis_option, export_pc, export_image>>

vars == <<tideVars, noiseVars, lowTideVars, compositeVars, cloudVars, poolVars, downloadVars,
          pipelineVars, glintVars, shadowVars, exportVars>>

-----------------------------------------------------------------------------
(* A component that a specification does not run stays idle.               *)

\* self.hc = None
None == [assigned |-> FALSE, points |-> <<>>]

IdlePredictor ==
    /\ tile_water_centroids = <<>>
    /\ tile_id = ""
    /\ hc = None

IdleTide ==
    /\ image_date_time = 0
    /\ tide_curve = <<>>
    /\ tide_pc = "idle"
    /\ tide_result = <<>>
    /\ IdlePredictor

IdleNoise ==
    /\ noise_index = <<>>
    /\ min_images = 0
    /\ noise_pc = "idle"
    /\ noise_value = <<>>
    /\ filtered_ids = <<>>

IdleLowTide ==
    /\ lt_args = <<>>
    /\ lt_pc = "idle"
    /\ tide_properties_list = <<>>
    /\ tide_image_list = <<>>
    /\ filtered_collection = {}

IdleComposite ==
    /\ composite_collection = <<>>
    /\ solar_azimuth = 0
    /\ comp_pc = "idle"
    /\ composite = <<>>

IdleCloud ==
    /\ s2cloudless = <<>>
    /\ shadow_side = 0
    /\ cloud_pc = "idle"
    /\ cloud_bands = <<>>

IdlePool ==
    /\ main_pc = "idle"
    /\ chunk = 0
    /\ future = <<>>
    /\ yielded = {}

IdlePipeline ==
    /\ pl_function = ""
    /\ correct_sunglint = FALSE
    /\ max_images = 0
    /\ pl_candidates = {}
    /\ pl_low_tide = {}
    /\ pl_collection = {}
    /\ pl_corrected = {}
    /\ pl_stages = <<>>
    /\ pl_pc = "idle"

IdleDownload ==
    /\ max_retries = 0
    /\ tile_index = 0
    /\ dl_pc = "idle"
    /\ attempt = 0
    /\ fs = <<>>
    /\ fs_before = <<>>
    /\ missing_tiles = <<>>
    /\ attempts = <<>>

IdleGlint ==
    /\ glint_collection = <<>>
    /\ glint_pc = "idle"
    /\ glint_filtered = {}

IdleShadow ==
    /\ image_pair = <<>>
    /\ pair_bands = <<>>

IdleExport ==
    /\ export_normalised = <<>>
    /\ selected_vis_option = ""
    /\ export_pc = "idle"
    /\ export_image = <<>>

-----------------------------------------------------------------------------
(* Helpers on sequences and sets                                           *)

Range(s) == {s[i] : i \in DOMAIN s}

SeqsUpTo(S, n) == UNION {[1..k -> S] : k \in 0..n}

Min(a, b) == IF a < b THEN a ELSE b

\* Python's list[0:k]
Take(s, k) == SubSeq(s, 1, Min(k, Len(s)))

\* Python's sorted(s, key=...) on a list s of image ids: stable, ascending.
RECURSIVE sorted(_, _)
sorted(s, key) ==
    IF s = <<>> THEN <<>>
    ELSE LET n == Len(s)
             prev == sorted(SubSeq(s, 1, n - 1), key)
             pos == Cardinality({i \in 1..Len(prev) : key[prev[i]] <= key[s[n]]})
         IN  SubSeq(prev, 1, pos) \o <<s[n]>> \o SubSeq(prev, pos + 1, Len(prev))

-----------------------------------------------------------------------------
(* TidePredictor                                                           *)

\* Largest absolute tide elevation of the model's curves.
MaxElev == 3

Elev == (0 - MaxElev)..MaxElev

INCOMING_TIDE == "incoming tide"
PEAK_HIGH_TIDE == "peak high tide"
OUTGOING_TIDE == "outgoing tide"
PEAK_LOW_TIDE == "peak low tide"
\* tide_type = "" is what get_tide_elevation returns when no branch matches
UNDEFINED_TIDE == ""

TIDE_TYPE == {INCOMING_TIDE, PEAK_HIGH_TIDE, OUTGOING_TIDE, PEAK_LOW_TIDE}

\* timedelta(hours=2), in minutes
TWO_HOURS == 120

\* np.arange(300, step=120)
time_series_minutes == <<0, 120, 240>>

\* pyTMD.time.convert_calendar_dates(year, month, day, hour, minute=series):
\* the time stamp's own minutes are not passed on, only its hour.
convert_calendar_dates(date_time) ==
    LET hour == date_time \div 60
    IN  [i \in 1..3 |-> hour * 60 + time_series_minutes[i]]

\* The three sample times of get_tide_elevation for an image time stamp.
tide_time(t) == convert_calendar_dates(t - TWO_HOURS)

\* The if/elif chain on tide_data, with a plausible slip: >= in the first test.
determine_tide_type_slip(tide_data) ==
    IF tide_data[1] >= tide_data[2] /\ tide_data[2] > tide_data[3] THEN OUTGOING_TIDE
    ELSE IF tide_data[1] < tide_data[2] /\ tide_data[2] > tide_data[3] THEN PEAK_HIGH_TIDE
    ELSE IF tide_data[1] < tide_data[2] /\ tide_data[2] < tide_data[3] THEN INCOMING_TIDE
    ELSE IF tide_data[1] > tide_data[2] /\ tide_data[2] < tide_data[3] THEN PEAK_LOW_TIDE
    ELSE UNDEFINED_TIDE

\* The if/elif chain on tide_data (Python chained comparisons a > b > c).
determine_tide_type(tide_data) ==
    IF tide_data[1] > tide_data[2] /\ tide_data[2] > tide_data[3] THEN OUTGOING_TIDE
    ELSE IF tide_data[1] < tide_data[2] /\ tide_data[2] > tide_data[3] THEN PEAK_HIGH_TIDE
    ELSE IF tide_data[1] < tide_data[2] /\ tide_data[2] < tide_data[3] THEN INCOMING_TIDE
    ELSE IF tide_data[1] > tide_data[2] /\ tide_data[2] < tide_data[3] THEN PEAK_LOW_TIDE
    ELSE UNDEFINED_TIDE

\* get_tide_elevation(image_date_time) for a predictor whose model gives
\* curve[t] at time t: returns <<tide_data[1], tide_type>> (0-based index 1).
get_tide_elevation(curve, t) ==
    LET times == tide_time(t)
        tide_data == [i \in 1..3 |-> curve[times[i]]]
    IN  <<tide_data[2], determine_tide_type(tide_data)>>

\* Image time stamps: on the hour and off the hour.
ImageTimes == {180, 210}

\* The times at which the model's curve matters for an image at t.
CurveTimes(t) == Range(tide_time(t)) \cup {t}

NoResult == <<>>

InitTide ==
    /\ IdleNoise /\ IdleLowTide /\ IdleComposite /\ IdleCloud /\ IdlePool /\ IdleDownload /\ IdlePipeline
    /\ IdleGlint /\ IdleShadow /\ IdleExport
    /\ image_date_time \in ImageTimes
    /\ tide_curve \in [CurveTimes(image_date_time) -> Elev]
    /\ tide_pc = "call"
    /\ tide_result = NoResult
    /\ IdlePredictor

GetTideElevation ==
    /\ tide_pc = "call"
    /\ tide_result' = get_tide_elevation(tide_curve, image_date_time)
    /\ tide_pc' = "returned"
    /\ UNCHANGED <<image_date_time, tide_curve, tile_water_centroids, tile_id, hc>>
    /\ UNCHANGED <<noiseVars, lowTideVars, compositeVars, cloudVars, poolVars, downloadVars, pipelineVars,
                   glintVars, shadowVars, exportVars>>

NextTide == GetTideElevation

SpecTide == InitTide /\ [][NextTide]_vars

\* The three samples the returned classification was computed from.
Samples == [i \in 1..3 |-> tide_curve[tide_time(image_date_time)[i]]]

\* C1: get_tide_elevation classifies the samples (a, b, c) as a>b>c -> outgoing,
\* a<b and b>c -> peak high, a<b<c -> incoming, a>b and b<c -> peak low, and every
\* triple with a tie between adjacent samples as the undefined state (""); the
\* call returns for every triple and exactly one of the five outcomes applies.
C1_TideClassification ==
    tide_pc = "returned" =>
        LET a == Samples[1]
            b == Samples[2]
            c == Samples[3]
            ty == tide_result[2]
        IN  /\ ty \in TIDE_TYPE \cup {UNDEFINED_TIDE}
            /\ (ty = OUTGOING_TIDE) <=> (a > b /\ b > c)
            /\ (ty = PEAK_HIGH_TIDE) <=> (a < b /\ b > c)
            /\ (ty = INCOMING_TIDE) <=> (a < b /\ b < c)
            /\ (ty = PEAK_LOW_TIDE) <=> (a > b /\ b < c)
            /\ (ty = UNDEFINED_TIDE) <=> (a = b \/ b = c)

\* A tie (3,3,3)-like triple has been classified as undefined.
C1_Witness ==
    /\ tide_pc = "returned"
    /\ Samples[1] = Samples[2] /\ Samples[2] = Samples[3]
    /\ tide_result[2] = UNDEFINED_TIDE

-----------------------------------------------------------------------------
(* NoisePredictor                                                          *)

\* "Remove all entries with noise_index >= 15"
NOISE_CUTOFF == 15

\* noise_index of an image whose noise proportion is undefined
NOISE_SENTINEL == 99999999

\* "Add a benefit for more images": 3 / (index + 1)
REWARD == 3

\* Most images of one collection, and the largest min_images_in_collection.
MaxNoiseImages == 4
MaxMinImages == 3

\* noise_index values: usable ones, the cutoff itself, and the sentinel.
NoiseScores == {2, 3, 6, 14, NOISE_CUTOFF, NOISE_SENTINEL}

RECURSIVE GCD(_, _)
GCD(a, b) == IF b = 0 THEN a ELSE GCD(b, a % b)

RECURSIVE LcmUpTo(_)
LcmUpTo(n) == IF n <= 1 THEN 1 ELSE LET l == LcmUpTo(n - 1) IN (l * n) \div GCD(l, n)

\* The statistic is kept exact: sums are held as multiples of 1/RewardScale,
\* so that 3 / (index + 1) is an integer number of units for every index.
RewardScale == LcmUpTo(MaxNoiseImages)

\* a * b as <<high, low>> digits in base 4096 (the products exceed 32 bits).
WideMul(a, b) ==
    LET lo == (a % 4096) * b
    IN  <<(a \div 4096) * b + lo \div 4096, lo % 4096>>

WideGreater(x, y) == x[1] > y[1] \/ (x[1] = y[1] /\ x[2] > y[2])

\* sum of noise_index + 3 / (index + 1) over the list, in units of 1/RewardScale
RECURSIVE noise_sum(_, _)
noise_sum(filtered_list, ni) ==
    IF filtered_list = <<>> THEN 0
    ELSE LET n == Len(filtered_list)
         IN  noise_sum(SubSeq(filtered_list, 1, n - 1), ni)
             + ni[filtered_list[n]] * RewardScale + (REWARD * RewardScale) \div n

\* The statistic, with a plausible slip: plain Python arithmetic, where the
\* mean of an empty list is a ZeroDivisionError instead of numpy's nan.
calculate_noise_in_property_list_raising(filtered_list, ni) ==
    IF filtered_list = <<>> THEN [kind |-> "raise"]
    ELSE [kind |-> "num", sum |-> noise_sum(filtered_list, ni), count |-> Len(filtered_list)]

\* calculate_noise_in_property_list: sem = np.mean(noise_index) / np.sqrt(count).
\* np.mean of an empty list is nan (a warning, no exception), and nan / 0.0 is nan.
\* The value sum / count^(3/2) is kept as the pair (sum, count).
calculate_noise_in_property_list(filtered_list, ni) ==
    IF filtered_list = <<>> THEN [kind |-> "nan"]
    ELSE [kind |-> "num", sum |-> noise_sum(filtered_list, ni), count |-> Len(filtered_list)]

\* The comparison with a plausible slip: the operands swapped.
noise_greater_swapped(x, y) ==
    /\ x.kind = "num" /\ y.kind = "num"
    /\ WideGreater(WideMul(y.sum * y.sum, x.count * x.count * x.count),
                   WideMul(x.sum * x.sum, y.count * y.count * y.count))

\* x > y on two statistics (floats): false when either is nan. Both sums are
\* positive, so x.sum / x.count^1.5 > y.sum / y.count^1.5 is compared squared.
noise_greater(x, y) ==
    /\ x.kind = "num" /\ y.kind = "num"
    /\ WideGreater(WideMul(x.sum * x.sum, y.count * y.count * y.count),
                   WideMul(y.sum * y.sum, x.count * x.count * x.count))

\* The cutoff filter with a plausible slip: the cutoff value itself is kept.
noise_properties_list_keeps_cutoff(ni) ==
    LET ids == [i \in 1..Len(ni) |-> i]
    IN  SelectSeq(sorted(ids, ni), LAMBDA i : ni[i] <= NOISE_CUTOFF)

\* sorted(noise_properties_list, key=noise_index), then the cutoff filter
noise_properties_list(ni) ==
    LET ids == [i \in 1..Len(ni) |-> i]
    IN  SelectSeq(sorted(ids, ni), LAMBDA i : ni[i] < NOISE_CUTOFF)

\* The baseline slice with a plausible slip: one image short.
baseline_list_short(list, min_images_in_collection) ==
    Take(list, min_images_in_collection - 1)

\* filtered_list = noise_properties_list[0:min_images_in_collection]
baseline_list(list, min_images_in_collection) ==
    Take(list, min_images_in_collection)

\* The loop with a plausible slip: the running level stays the baseline level.
RECURSIVE extend_against_baseline(_, _, _, _, _)
extend_against_baseline(list, ni, end_row, base_noise_level, filtered_list) ==
    IF end_row >= Len(list) THEN [raised |-> FALSE, list |-> filtered_list]
    ELSE LET next_filtered_list == SubSeq(list, 1, end_row)
             composite_noise_level == calculate_noise_in_property_list(next_filtered_list, ni)
         IN  IF composite_noise_level.kind = "raise"
             THEN [raised |-> TRUE, list |-> <<>>]
             ELSE IF noise_greater(composite_noise_level, base_noise_level)
             THEN [raised |-> FALSE, list |-> filtered_list]
             ELSE extend_against_baseline(list, ni, end_row + 1, base_noise_level,
                                          next_filtered_list)

\* for end_row in range(min_images_in_collection + 1, len(noise_properties_list)):
\* the loop from end_row on, with the running level and the accepted prefix.
RECURSIVE extend_while_not_noisier(_, _, _, _, _)
extend_while_not_noisier(list, ni, end_row, base_noise_level, filtered_list) ==
    IF end_row >= Len(list) THEN [raised |-> FALSE, list |-> filtered_list]
    ELSE LET next_filtered_list == SubSeq(list, 1, end_row)
             composite_noise_level == calculate_noise_in_property_list(next_filtered_list, ni)
         IN  IF composite_noise_level.kind = "raise"
             THEN [raised |-> TRUE, list |-> <<>>]
             ELSE IF noise_greater(composite_noise_level, base_noise_level)
             THEN [raised |-> FALSE, list |-> filtered_list]
             ELSE extend_while_not_noisier(list, ni, end_row + 1, composite_noise_level,
                                           next_filtered_list)

\* filter_noise_adding_images on a collection whose images have the noise
\* indexes ni: [raised, list], list being filtered_list as image ids.
filter_noise_adding_images(ni, min_images_in_collection) ==
    LET list == noise_properties_list(ni)
        filtered_list == baseline_list(list, min_images_in_collection)
        base_noise_level == calculate_noise_in_property_list(filtered_list, ni)
    IN  IF base_noise_level.kind = "raise"
        THEN [raised |-> TRUE, list |-> <<>>]
        ELSE extend_while_not_noisier(list, ni, min_images_in_collection + 1,
                                      base_noise_level, filtered_list)

InitNoise ==
    /\ IdleTide /\ IdleLowTide /\ IdleComposite /\ IdleCloud /\ IdlePool /\ IdleDownload /\ IdlePipeline
    /\ IdleGlint /\ IdleShadow /\ IdleExport
    /\ noise_index \in SeqsUpTo(NoiseScores, MaxNoiseImages)
    /\ min_images \in 1..MaxMinImages
    /\ noise_pc = "call"
    /\ filtered_ids = <<>>
    /\ noise_value = <<>>

FilterNoiseAddingImages ==
    /\ noise_pc = "call"
    /\ LET r == filter_noise_adding_images(noise_index, min_images)
       IN  /\ noise_pc' = IF r.raised THEN "raised" ELSE "returned"
           /\ filtered_ids' = r.list
    /\ UNCHANGED <<noise_index, min_images, noise_value>>
    /\ UNCHANGED <<tideVars, lowTideVars, compositeVars, cloudVars, poolVars, downloadVars, pipelineVars,
                   glintVars, shadowVars, exportVars>>

NextNoise == FilterNoiseAddingImages

SpecNoise == InitNoise /\ [][NextNoise]_vars

\* The images that pass the cutoff, and the collection in ascending noise order.
Available == Cardinality({i \in DOMAIN noise_index : noise_index[i] < NOISE_CUTOFF})

RankedIds == sorted([i \in 1..Len(noise_index) |-> i], noise_index)

IsPrefix(s, t) == Len(s) <= Len(t) /\ s = SubSeq(t, 1, Len(s))

\* The composite-noise statistic of the first n ranked images is
\* StatSum(n) / (RewardScale * n^(3/2)): the mean of noise_index + 3 / rank over
\* the n images, divided by sqrt(n).
StatSum(n) == noise_sum(Take(RankedIds, n), noise_index)

\* Extending the ranked prefix from e - 1 to e images raises the statistic
\* (e >= 2; both statistics are positive, so their squares are compared).
StatisticIncreasesAt(e) ==
    WideGreater(WideMul(StatSum(e) * StatSum(e), (e - 1) * (e - 1) * (e - 1)),
                WideMul(StatSum(e - 1) * StatSum(e - 1), e * e * e))

\* The selection is a prefix of the ranking with at least min_images images
\* that stops before the first extension that raised the statistic.
SelectsQuietPrefix ==
    /\ noise_pc = "returned"
    /\ IsPrefix(filtered_ids, RankedIds)
    /\ Len(filtered_ids) >= min_images
    /\ \A e \in (min_images + 1)..Len(filtered_ids) : ~StatisticIncreasesAt(e)

\* C2 as stated: for any noise-score list (ranked ascending) longer than
\* min_images, the selection is a prefix of the ranking, has at least min_images
\* images, and holds no image ranked at or after the first extension that raised
\* the composite-noise statistic.
C2_Original ==
    (noise_pc # "call" /\ Len(noise_index) > min_images) => SelectsQuietPrefix

\* C2 amended: the same for any list of which more than min_images entries have
\* noise_index < 15 (the entries the cutoff keeps).
C2_QuietPrefix ==
    (noise_pc # "call" /\ Available > min_images) => SelectsQuietPrefix

\* An extension was accepted and the next one, which raised the statistic, ended the loop.
C2_Witness ==
    /\ noise_pc = "returned"
    /\ Available > min_images
    /\ Len(filtered_ids) > min_images
    /\ Len(filtered_ids) + 1 < Available
    /\ StatisticIncreasesAt(Len(filtered_ids) + 1)

\* C3: the selection never has fewer than min(min_images, available) images,
\* available being the number of images with noise_index < 15.
C3_AtLeastMin ==
    noise_pc # "call" =>
        /\ noise_pc = "returned"
        /\ Cardinality(Range(filtered_ids)) >= Min(min_images, Available)

\* Exactly min_images images were returned although more were available.
C3_Witness ==
    /\ noise_pc = "returned"
    /\ Available > min_images
    /\ Cardinality(Range(filtered_ids)) = min_images

\* C10: with fewer than min_images candidates after the cutoff (zero included)
\* the call completes without raising and selects exactly the remaining candidates.
C10_Undersized ==
    (noise_pc # "call" /\ Available < min_images) =>
        /\ noise_pc = "returned"
        /\ Len(filtered_ids) = Available
        /\ Range(filtered_ids) = {i \in DOMAIN noise_index : noise_index[i] < NOISE_CUTOFF}

\* A collection whose images are all cut off: nothing remains, and the call returned.
C10_Witness ==
    /\ noise_pc = "returned"
    /\ Len(noise_index) > 0
    /\ Available = 0
    /\ filtered_ids = <<>>

-----------------------------------------------------------------------------
(* Sentinel2Processor.get_low_tide_composite                               *)

\* Most images of one orbit segment, and the largest image counts asked for.
MaxSegmentImages == 3
MaxLtMinImages == 2
MaxLtMaxImages == 3

\* The time stamp of the images of the segment (on the hour).
SegmentImageTime == 180

\* Tide elevations of the images of the segment at their time stamp.
SegmentElevations == {-2, -1, 1}

\* The model's curve around an image. Below mean sea level: one step up or down
\* to the sample before and to the sample after (the four tide types). Above
\* mean sea level, where the tide type is never read: level (no tide type).
TideWindows ==
    LET times == tide_time(SegmentImageTime)
    IN  {c \in [CurveTimes(SegmentImageTime) -> Elev] :
            /\ c[times[2]] \in SegmentElevations
            /\ c[times[2]] < 0 =>
                    /\ c[times[1]] - c[times[2]] \in {-1, 1}
                    /\ c[times[3]] - c[times[2]] \in {-1, 1}
            /\ c[times[2]] >= 0 =>
                    /\ c[times[1]] = c[times[2]]
                    /\ c[times[3]] = c[times[2]]}

\* tide_properties of one image: system:time_start and the model's curve around it
TideImages == [time_start : {SegmentImageTime}, curve : TideWindows]

\* tide_type_order for a tide_type_focus; [] for any other focus
tide_type_order(tide_type_focus) ==
    IF tide_type_focus = OUTGOING_TIDE
    THEN <<OUTGOING_TIDE, PEAK_LOW_TIDE, INCOMING_TIDE>>
    ELSE IF tide_type_focus = PEAK_LOW_TIDE
    THEN <<PEAK_LOW_TIDE, OUTGOING_TIDE, INCOMING_TIDE>>
    ELSE IF tide_type_focus = INCOMING_TIDE
    THEN <<INCOMING_TIDE, PEAK_LOW_TIDE, OUTGOING_TIDE>>
    ELSE <<>>

\* tide_properties["tide_elevation"] and ["tide_type"] of each image of the list
tide_elevation(list) ==
    [i \in 1..Len(list) |-> get_tide_elevation(list[i].curve, list[i].time_start)[1]]

tide_type(list) ==
    [i \in 1..Len(list) |-> get_tide_elevation(list[i].curve, list[i].time_start)[2]]

\* below_msl_tide_properties_list: negative elevation, sorted by elevation
below_msl_tide_properties_list(list) ==
    LET ids == [i \in 1..Len(list) |-> i]
        elevation == tide_elevation(list)
    IN  sorted(SelectSeq(ids, LAMBDA i : elevation[i] < 0), elevation)

\* The entries of the below-MSL list of one tide type
tide_type_list(list, type) ==
    LET types == tide_type(list)
    IN  SelectSeq(below_msl_tide_properties_list(list), LAMBDA i : types[i] = type)

\* for tide_type in tide_type_order: extend while fewer than min images are gathered
RECURSIVE gather_by_tide_type(_, _, _, _, _)
gather_by_tide_type(list, order, k, min_images_in_collection, gathered) ==
    IF k > Len(order) THEN gathered
    ELSE IF Len(gathered) < min_images_in_collection
    THEN gather_by_tide_type(list, order, k + 1, min_images_in_collection,
                             gathered \o tide_type_list(list, order[k]))
    ELSE gather_by_tide_type(list, order, k + 1, min_images_in_collection, gathered)

\* The second addition with a plausible slip: nothing is added.
add_incoming_tide_skipped(list, min_images_in_collection, gathered) == gathered

\* "If not, we will add incoming tide images"
add_incoming_tide(list, min_images_in_collection, gathered) ==
    IF Len(gathered) < min_images_in_collection
    THEN gathered \o tide_type_list(list, INCOMING_TIDE)
    ELSE gathered

\* The fallback and the final slice to max_images_in_collection
fallback_or_slice(list, min_images_in_collection, max_images_in_collection, gathered) ==
    IF Len(gathered) < min_images_in_collection
    THEN Take(sorted([i \in 1..Len(list) |-> i], tide_elevation(list)),
              max_images_in_collection)
    ELSE Take(gathered, max_images_in_collection)

\* One iteration of the orbit loop: tide_image_list of the orbit's images
select_tide_images(list, args) ==
    LET order == tide_type_order(args.tide_type_focus)
        min_n == args.min_images_in_collection
        by_type == gather_by_tide_type(list, order, 1, min_n, <<>>)
        with_incoming == add_incoming_tide(list, min_n, by_type)
    IN  fallback_or_slice(list, min_n, args.max_images_in_collection, with_incoming)

\* The collection of the tile has the images of one orbit number: the loop body
\* starts from an empty tide_image_list for every orbit number, and orbit
\* segments share nothing but the system_index_values they append to.
InitLowTide ==
    /\ IdleTide /\ IdleNoise /\ IdleComposite /\ IdleCloud /\ IdlePool /\ IdleDownload /\ IdlePipeline
    /\ IdleGlint /\ IdleShadow /\ IdleExport
    /\ lt_args \in [min_images_in_collection : 1..MaxLtMinImages,
                    max_images_in_collection : 1..MaxLtMaxImages,
                    tide_type_focus : TIDE_TYPE]
    /\ lt_pc = "orbit"
    /\ tide_properties_list \in SeqsUpTo(TideImages, MaxSegmentImages) \ {<<>>}
    /\ tide_image_list = <<>>
    /\ filtered_collection = {}

\* The iteration of "for orbit_number in orbit_numbers.getInfo()" for the orbit:
\* tide elevation and type are added to each image and tide_image_list is built.
SelectOrbitImages ==
    /\ lt_pc = "orbit"
    /\ tide_image_list' = select_tide_images(tide_properties_list, lt_args)
    /\ lt_pc' = "filter"
    /\ UNCHANGED <<lt_args, tide_properties_list, filtered_collection>>
    /\ UNCHANGED <<tideVars, noiseVars, compositeVars, cloudVars, poolVars, downloadVars, pipelineVars,
                   glintVars, shadowVars, exportVars>>

\* After the loop: the collection is filtered by system:index in the list and
\* handed to _create_composite.
FilterAndComposite ==
    /\ lt_pc = "filter"
    /\ filtered_collection' =
           {i \in 1..Len(tide_properties_list) : i \in Range(tide_image_list)}
    /\ lt_pc' = "composite"
    /\ UNCHANGED <<lt_args, tide_properties_list, tide_image_list>>
    /\ UNCHANGED <<tideVars, noiseVars, compositeVars, cloudVars, poolVars, downloadVars, pipelineVars,
                   glintVars, shadowVars, exportVars>>

NextLowTide == SelectOrbitImages \/ FilterAndComposite

SpecLowTide == InitLowTide /\ [][NextLowTide]_vars

\* C4 as stated: for every orbit segment and every maxImages >= minImages the
\* selection contributes at least min(minImages, available) distinct images of
\* the segment to the composite, available being the number of images of the
\* segment.
C4_AtLeastMinDistinct ==
    (lt_pc = "composite"
     /\ lt_args.max_images_in_collection >= lt_args.min_images_in_collection) =>
        Cardinality(filtered_collection)
            >= Min(lt_args.min_images_in_collection, Len(tide_properties_list))

-----------------------------------------------------------------------------
(* The two-pass cloud and cloud-shadow mask                                *)
(* (Sentinel2Processor._add_s2_cloud_shadow_mask, the same code as         *)
(* CloudHandler._add_s2_cloud_shadow_mask)                                 *)
(*                                                                         *)
(* An image is a row of NPix pixels of PixelSize metres along the line of  *)
(* the shadows; a distance of d metres is d \div PixelSize pixels.          *)

NPix == 5
PixelSize == 150

Pixels == 1..NPix

\* Cloud probability (%) of a pixel: around the two thresholds.
ProbLevels == {0, 35, 36, 80, 81}

\* The two directions along the row a shadow can fall to
\* (90 - MEAN_SOLAR_AZIMUTH_ANGLE).
ShadowAzimuths == {-1, 1}

\* Parameters of the low cloud pass: threshold (%), erosion (m), projection
\* (cloud_proj_dist * 10 pixels at the 100 m scale), buffer (m)
LOW_CLOUD_PROB == 35
LOW_EROSION == 0
LOW_PROJ_PIXELS == 4
LOW_BUFFER == 150

\* Parameters of the high cloud pass
HIGH_CLOUD_PROB == 80
HIGH_EROSION == 300
HIGH_PROJ_PIXELS == 15
HIGH_BUFFER == 300

\* ".reproject(..., None, 100)": the scale of the shadow projection, in metres
PROJ_SCALE == 100

ToPixels(metres) == metres \div PixelSize

\* A raster with the value of every pixel computed once
Raster(row) == SubSeq(row, 1, NPix)

\* focal_min / focal_max with a radius in pixels; pixels outside the row are
\* masked and take no part.
Window(p, radius) == {q \in Pixels : q >= p - radius /\ q <= p + radius}

focal_min(mask, radius) ==
    Raster([p \in Pixels |-> IF \A q \in Window(p, radius) : mask[q] = 1 THEN 1 ELSE 0])

focal_max(mask, radius) ==
    Raster([p \in Pixels |-> IF \E q \in Window(p, radius) : mask[q] = 1 THEN 1 ELSE 0])

\* directionalDistanceTransform(shadow_azimuth, max_distance).select("distance").mask():
\* 1 where a mask pixel lies within max_distance against the shadow direction.
directionalDistanceTransform(mask, shadow_azimuth, max_distance) ==
    Raster([p \in Pixels |->
        IF \E q \in Pixels : /\ mask[q] = 1
                             /\ (p - q) * shadow_azimuth >= 0
                             /\ (p - q) * shadow_azimuth <= max_distance
        THEN 1 ELSE 0])

\* _get_s2_cloud_shadow_mask(image, cloud_prob_thresh, erosion, cloud_proj_dist, buffer):
\* threshold, erosion and dilation if erosion > 0, shadow projection, buffer.
\* The dark-pixel mask is computed by the code and not used in the result.
_get_s2_cloud_shadow_mask(probability, shadow_azimuth, cloud_prob_thresh, erosion, proj_pixels, buffer) ==
    LET is_cloud == [p \in Pixels |-> IF probability[p] > cloud_prob_thresh THEN 1 ELSE 0]
        is_cloud_erosion_dilation ==
            IF erosion > 0
            THEN focal_max(focal_min(is_cloud, ToPixels(erosion)), ToPixels(erosion))
            ELSE is_cloud
        cloud_proj == directionalDistanceTransform(is_cloud_erosion_dilation, shadow_azimuth,
                                                   ToPixels(proj_pixels * PROJ_SCALE))
        is_cloud_or_shadow == cloud_proj
    IN  focal_max(is_cloud_or_shadow, ToPixels(buffer))

\* The combination with a plausible slip: the product of the two masks.
combine_cloud_masks_product(high_cloud_mask, low_cloud_mask) ==
    [p \in Pixels |-> IF high_cloud_mask[p] * low_cloud_mask[p] > 0 THEN 1 ELSE 0]

\* high_cloud_mask.add(low_cloud_mask).gt(0)
combine_cloud_masks(high_cloud_mask, low_cloud_mask) ==
    [p \in Pixels |-> IF high_cloud_mask[p] + low_cloud_mask[p] > 0 THEN 1 ELSE 0]

\* _add_s2_cloud_shadow_mask: the bands added to the image
_add_s2_cloud_shadow_mask(probability, shadow_azimuth) ==
    LET low_cloud_mask ==
            _get_s2_cloud_shadow_mask(probability, shadow_azimuth, LOW_CLOUD_PROB,
                                      LOW_EROSION, LOW_PROJ_PIXELS, LOW_BUFFER)
        high_cloud_mask ==
            _get_s2_cloud_shadow_mask(probability, shadow_azimuth, HIGH_CLOUD_PROB,
                                      HIGH_EROSION, HIGH_PROJ_PIXELS, HIGH_BUFFER)
    IN  [cloudmask |-> combine_cloud_masks(high_cloud_mask, low_cloud_mask),
         highcloudmask |-> high_cloud_mask,
         lowcloudmask |-> low_cloud_mask]

InitCloud ==
    /\ IdleTide /\ IdleNoise /\ IdleLowTide /\ IdleComposite /\ IdlePool /\ IdleDownload /\ IdlePipeline
    /\ IdleGlint /\ IdleShadow /\ IdleExport
    /\ s2cloudless \in [Pixels -> ProbLevels]
    /\ shadow_side \in ShadowAzimuths
    /\ cloud_pc = "call"
    /\ cloud_bands = <<>>

\* ImageCollection.first() of a collection without image: null
Null == <<>>

AddS2CloudShadowMask ==
    /\ cloud_pc = "call"
    /\ s2cloudless # Null
    /\ cloud_bands' = _add_s2_cloud_shadow_mask(s2cloudless, shadow_side)
    /\ cloud_pc' = "returned"
    /\ UNCHANGED <<s2cloudless, shadow_side>>
    /\ UNCHANGED <<tideVars, noiseVars, lowTideVars, compositeVars, poolVars, downloadVars, pipelineVars,
                   glintVars, shadowVars, exportVars>>

NextCloud == AddS2CloudShadowMask

SpecCloud == InitCloud /\ [][NextCloud]_vars

\* C7: the combined cloudmask is true at a pixel if and only if the low-cloud
\* pass mask (threshold 35) or the high-cloud pass mask (threshold 80) is true
\* there; for a probability layer below both thresholds at every pixel the
\* combined mask is false at every pixel.
C7_CombinedMask ==
    cloud_pc = "returned" =>
        /\ \A p \in Pixels :
              (cloud_bands.cloudmask[p] = 1)
                  <=> (cloud_bands.lowcloudmask[p] = 1 \/ cloud_bands.highcloudmask[p] = 1)
        /\ \A p \in Pixels : cloud_bands.cloudmask[p] \in {0, 1}
        /\ (\A p \in Pixels : s2cloudless[p] < LOW_CLOUD_PROB /\ s2cloudless[p] < HIGH_CLOUD_PROB)
              => \A p \in Pixels : cloud_bands.cloudmask[p] = 0

\* A pixel that only one of the two passes masks is masked in the combined mask,
\* next to a pixel that neither pass masks.
C7_Witness ==
    /\ cloud_pc = "returned"
    /\ \E p \in Pixels : /\ cloud_bands.lowcloudmask[p] = 1
                         /\ cloud_bands.highcloudmask[p] = 0
                         /\ cloud_bands.cloudmask[p] = 1
    /\ \E p \in Pixels : cloud_bands.cloudmask[p] = 0

-----------------------------------------------------------------------------
(* Sentinel2Processor._create_composite and mask_clouds                    *)
(*                                                                         *)
(* An image of the collection is a row of pixel values and the row of its  *)
(* cloud probability layer. Its bands carry the same values and differ in  *)
(* how masking treats them: "B" stands for the reflectance bands B.*, "QA" *)
(* for the bands QA.*.                                                     *)

MaxCompositeImages == 2

\* The value of a masked pixel
NoData == -1

Reflectances == {1, 2}

\* Rows of an image: valid everywhere, or masked at the first pixel.
ValueRows ==
    {[p \in Pixels |-> v] : v \in Reflectances}
        \cup {[p \in Pixels |-> IF p = 1 THEN NoData ELSE v] : v \in Reflectances}

\* Probability layers: clear sky, a thin cloud at either end of the row, thick
\* cloud everywhere.
ProbabilityRows ==
    { [p \in Pixels |-> 0],
      [p \in Pixels |-> IF p = 1 THEN LOW_CLOUD_PROB + 1 ELSE 0],
      [p \in Pixels |-> IF p = NPix THEN LOW_CLOUD_PROB + 1 ELSE 0],
      [p \in Pixels |-> HIGH_CLOUD_PROB + 1] }

CompositeImages == [value : ValueRows, probability : ProbabilityRows]

IMG_BANDS == {"B", "QA"}

\* image.updateMask(mask): a pixel stays valid where the mask is non-zero
updateMask(row, mask) == [p \in Pixels |-> IF mask[p] = 0 THEN NoData ELSE row[p]]

\* cloudmask.Not()
Not(mask) == [p \in Pixels |-> IF mask[p] = 0 THEN 1 ELSE 0]

\* mask_clouds: the bands B.* masked with the inverted cloudmask, the bands
\* QA.* as they are, and the cloudmask band.
mask_clouds(normalised_image, shadow_azimuth) ==
    LET cloudmask == _add_s2_cloud_shadow_mask(normalised_image.probability,
                                               shadow_azimuth).cloudmask
        not_cld_shdw == Not(cloudmask)
    IN  [B |-> updateMask(normalised_image.value, not_cld_shdw),
         QA |-> normalised_image.value,
         cloudmask |-> cloudmask]

\* ee.Reducer.percentile([pct]) over the valid values of a pixel, by nearest
\* rank; a pixel without a valid value stays masked.
percentile_rank(n, pct) ==
    LET r == (pct * n + 99) \div 100 IN IF r < 1 THEN 1 ELSE r

percentile(rows, p, pct) ==
    LET valid == {i \in 1..Len(rows) : rows[i][p] # NoData}
        atMost(v) == Cardinality({i \in valid : rows[i][p] <= v})
        rank == percentile_rank(Cardinality(valid), pct)
    IN  IF valid = {} THEN NoData
        ELSE CHOOSE v \in {rows[i][p] : i \in valid} :
                /\ atMost(v) >= rank
                /\ \A w \in {rows[i][p] : i \in valid} : w < v => atMost(w) < rank

reduce_percentile(rows, pct) == [p \in Pixels |-> percentile(rows, p, pct)]

\* composite_collection.reduce(ee.Reducer.percentile([50], ["p50"]))
composite_collection_no_cloud_mask(collection) ==
    LET rows == [i \in 1..Len(collection) |-> collection[i].value]
    IN  [B |-> reduce_percentile(rows, 50), QA |-> reduce_percentile(rows, 50)]

\* composite_collection.map(self.mask_clouds).reduce(ee.Reducer.percentile([15], ["p15"]))
composite_collection_with_cloud_mask(collection, shadow_azimuth) ==
    LET masked == [i \in 1..Len(collection) |-> mask_clouds(collection[i], shadow_azimuth)]
    IN  [B |-> reduce_percentile([i \in 1..Len(collection) |-> masked[i].B], 15),
         QA |-> reduce_percentile([i \in 1..Len(collection) |-> masked[i].QA], 15),
         cloudmask |-> reduce_percentile([i \in 1..Len(collection) |-> masked[i].cloudmask], 15)]

\* The layering with a plausible slip: the first layer on top.
mosaic_first_on_top(bottom, top) ==
    [p \in Pixels |-> IF bottom[p] # NoData THEN bottom[p] ELSE top[p]]

\* ee.ImageCollection([bottom, top]).mosaic(): the last layer is on top
mosaic(bottom, top) ==
    [p \in Pixels |-> IF top[p] # NoData THEN top[p] ELSE bottom[p]]

\* The test with a plausible slip: any image at all.
more_than_one_image_slip(size) == size >= 1

\* composite_collection.size().getInfo() > 1
more_than_one_image(size) == size > 1

\* composite_collection.geometry().dissolve(): the pixels some image covers
dissolved_geometry(collection) ==
    {p \in Pixels : \E i \in 1..Len(collection) : collection[i].value[p] # NoData}

\* composite.clip(geometry)
clip(row, geometry) == [p \in Pixels |-> IF p \in geometry THEN row[p] ELSE NoData]

_create_composite(collection, shadow_azimuth) ==
    LET no_cloud_mask == composite_collection_no_cloud_mask(collection)
        with_cloud_mask == composite_collection_with_cloud_mask(collection, shadow_azimuth)
        geometry == dissolved_geometry(collection)
    IN  IF more_than_one_image(Len(collection))
        THEN [bands |-> IMG_BANDS \cup {"cloudmask"},
              B |-> clip(mosaic(no_cloud_mask.B, with_cloud_mask.B), geometry),
              QA |-> clip(mosaic(no_cloud_mask.QA, with_cloud_mask.QA), geometry),
              cloudmask |-> clip(with_cloud_mask.cloudmask, geometry)]
        ELSE [bands |-> IMG_BANDS,
              B |-> clip(no_cloud_mask.B, geometry),
              QA |-> clip(no_cloud_mask.QA, geometry),
              cloudmask |-> <<>>]

InitComposite ==
    /\ IdleTide /\ IdleNoise /\ IdleLowTide /\ IdleCloud /\ IdlePool /\ IdleDownload /\ IdlePipeline
    /\ IdleGlint /\ IdleShadow /\ IdleExport
    /\ composite_collection \in SeqsUpTo(CompositeImages, MaxCompositeImages)
    /\ solar_azimuth \in ShadowAzimuths
    /\ comp_pc = "call"
    /\ composite = <<>>

\* _create_composite has no statement that raises: it returns the image built
\* from the collection, whatever the size of the collection.
CreateComposite ==
    /\ comp_pc = "call"
    /\ composite' = _create_composite(composite_collection, solar_azimuth)
    /\ comp_pc' = "returned"
    /\ UNCHANGED <<composite_collection, solar_azimuth>>
    /\ UNCHANGED <<tideVars, noiseVars, lowTideVars, cloudVars, poolVars, downloadVars, pipelineVars,
                   glintVars, shadowVars, exportVars>>

NextComposite == CreateComposite

SpecComposite == InitComposite /\ [][NextComposite]_vars

\* The cloud mask mask_clouds would put on image i of the collection
CloudMaskOf(i) ==
    _add_s2_cloud_shadow_mask(composite_collection[i].probability, solar_azimuth).cloudmask

\* C5: the composite of a collection of exactly one image has that image's
\* values in every band, also where the cloud mask of the image is set, and has
\* no cloudmask band; a composite has a cloudmask band if and only if its
\* collection has more than one image.
C5_SingleImage ==
    comp_pc = "returned" =>
        /\ ("cloudmask" \in composite.bands) <=> (Len(composite_collection) > 1)
        /\ Len(composite_collection) = 1 =>
              /\ composite.B = composite_collection[1].value
              /\ composite.QA = composite_collection[1].value
              /\ composite.bands = IMG_BANDS

\* A single image with a valid pixel under its own cloud mask has been composited.
C5_Witness ==
    /\ comp_pc = "returned"
    /\ Len(composite_collection) = 1
    /\ \E p \in Pixels : /\ CloudMaskOf(1)[p] = 1
                         /\ composite_collection[1].value[p] # NoData
                         /\ composite.B[p] = composite_collection[1].value[p]

\* C6: for more than one image, the composite takes the cloud-masked composite
\* B wherever B is defined and the unmasked composite A elsewhere: a pixel that
\* the cloud mask hides in every image has A's value, and the composite has a
\* value wherever A has one.
C6_MosaicBOverA ==
    (comp_pc = "returned" /\ Len(composite_collection) > 1) =>
        LET A == composite_collection_no_cloud_mask(composite_collection)
            B == composite_collection_with_cloud_mask(composite_collection, solar_azimuth)
        IN  \A p \in Pixels :
              /\ B.B[p] # NoData => composite.B[p] = B.B[p]
              /\ B.QA[p] # NoData => composite.QA[p] = B.QA[p]
              /\ (\A i \in 1..Len(composite_collection) : CloudMaskOf(i)[p] = 1)
                    => composite.B[p] = A.B[p]
              /\ A.B[p] # NoData => composite.B[p] # NoData
              /\ A.QA[p] # NoData => composite.QA[p] # NoData

\* Two images that differ, with a pixel the cloud mask hides in both (filled
\* from A) and a pixel where B differs from A and is the value taken.
C6_Witness ==
    /\ comp_pc = "returned"
    /\ Len(composite_collection) > 1
    /\ \E p \in Pixels :
          /\ \A i \in 1..Len(composite_collection) : CloudMaskOf(i)[p] = 1
          /\ composite.B[p] # NoData
    /\ \E p \in Pixels :
          /\ composite_collection_with_cloud_mask(composite_collection, solar_azimuth).B[p]
                # NoData
          /\ composite_collection_with_cloud_mask(composite_collection, solar_azimuth).B[p]
                # composite_collection_no_cloud_mask(composite_collection).B[p]
          /\ composite.B[p]
                = composite_collection_with_cloud_mask(composite_collection, solar_azimuth).B[p]

\* C8 as stated: a composite asked of an empty set of images ends in an
\* explicit error instead of an image.
C8_EmptyCompositeError ==
    (comp_pc # "call" /\ Len(composite_collection) = 0) => comp_pc = "raised"

-----------------------------------------------------------------------------
(* create-composite.py: the tiles of the data file are read in chunks of   *)
(* THREADS rows; each chunk gets a ThreadPoolExecutor, one submit per row, *)
(* and the main thread logs future.result() of each future as_completed    *)
(* yields it. create-low-tide-composite.py and create-NDWI-composite.py    *)
(* have the same loop.                                                     *)

MaxTiles == 4

THREADS == 2

Tiles == DOMAIN future

\* The rows of the chunk the reader handed out last
tile_ids_chunk == {t \in Tiles : t > (chunk - 1) * THREADS /\ t <= chunk * THREADS}

Done(t) == future[t] \in {"returned", "raised"}

InitPool ==
    /\ IdleTide /\ IdleNoise /\ IdleLowTide /\ IdleComposite /\ IdleCloud /\ IdleDownload /\ IdlePipeline
    /\ IdleGlint /\ IdleShadow /\ IdleExport
    /\ \E n \in 1..MaxTiles : future = [t \in 1..n |-> "unread"]
    /\ chunk = 0
    /\ main_pc = "read_chunk"
    /\ yielded = {}

\* for tile_ids_chunk in reader: the next chunk and a new executor
ReadChunk ==
    /\ main_pc = "read_chunk"
    /\ chunk * THREADS < Cardinality(Tiles)
    /\ chunk' = chunk + 1
    /\ main_pc' = "submit"
    /\ UNCHANGED <<future, yielded>>
    /\ UNCHANGED <<tideVars, noiseVars, lowTideVars, compositeVars, cloudVars, downloadVars, pipelineVars,
                   glintVars, shadowVars, exportVars>>

\* The reader is exhausted: the script ends.
EndOfFile ==
    /\ main_pc = "read_chunk"
    /\ chunk * THREADS >= Cardinality(Tiles)
    /\ main_pc' = "done"
    /\ UNCHANGED <<chunk, future, yielded>>
    /\ UNCHANGED <<tideVars, noiseVars, lowTideVars, compositeVars, cloudVars, downloadVars, pipelineVars,
                   glintVars, shadowVars, exportVars>>

\* futures.append(executor.submit(process_tile_id, ...)) for the next row
Submit(t) ==
    /\ main_pc = "submit"
    /\ t \in tile_ids_chunk
    /\ future[t] = "unread"
    /\ \A u \in tile_ids_chunk : u < t => future[u] # "unread"
    /\ future' = [future EXCEPT ![t] = "pending"]
    /\ main_pc' = IF \E u \in tile_ids_chunk : u > t THEN "submit" ELSE "as_completed"
    /\ UNCHANGED <<chunk, yielded>>
    /\ UNCHANGED <<tideVars, noiseVars, lowTideVars, compositeVars, cloudVars, downloadVars, pipelineVars,
                   glintVars, shadowVars, exportVars>>

\* A worker thread of the executor takes a submitted call (max_workers=THREADS)
WorkerStarts(t) ==
    /\ future[t] = "pending"
    /\ Cardinality({u \in Tiles : future[u] = "running"}) < THREADS
    /\ future' = [future EXCEPT ![t] = "running"]
    /\ UNCHANGED <<main_pc, chunk, yielded>>
    /\ UNCHANGED <<tideVars, noiseVars, lowTideVars, compositeVars, cloudVars, downloadVars, pipelineVars,
                   glintVars, shadowVars, exportVars>>

\* process_tile_id returns the tile index
WorkerReturns(t) ==
    /\ future[t] = "running"
    /\ future' = [future EXCEPT ![t] = "returned"]
    /\ UNCHANGED <<main_pc, chunk, yielded>>
    /\ UNCHANGED <<tideVars, noiseVars, lowTideVars, compositeVars, cloudVars, downloadVars, pipelineVars,
                   glintVars, shadowVars, exportVars>>

\* process_tile_id raises: the executor stores the exception in the future
WorkerRaises(t) ==
    /\ future[t] = "running"
    /\ future' = [future EXCEPT ![t] = "raised"]
    /\ UNCHANGED <<main_pc, chunk, yielded>>
    /\ UNCHANGED <<tideVars, noiseVars, lowTideVars, compositeVars, cloudVars, downloadVars, pipelineVars,
                   glintVars, shadowVars, exportVars>>

\* as_completed yields a finished future and future.result() returns: logged
ResultLogged(t) ==
    /\ main_pc = "as_completed"
    /\ t \in tile_ids_chunk \ yielded
    /\ future[t] = "returned"
    /\ yielded' = yielded \cup {t}
    /\ UNCHANGED <<main_pc, chunk, future>>
    /\ UNCHANGED <<tideVars, noiseVars, lowTideVars, compositeVars, cloudVars, downloadVars, pipelineVars,
                   glintVars, shadowVars, exportVars>>

\* as_completed yields a finished future and future.result() re-raises the
\* stored exception in the main thread, where nothing catches it
ResultRaises(t) ==
    /\ main_pc = "as_completed"
    /\ t \in tile_ids_chunk \ yielded
    /\ future[t] = "raised"
    /\ yielded' = yielded \cup {t}
    /\ main_pc' = "unwinding"
    /\ UNCHANGED <<chunk, future>>
    /\ UNCHANGED <<tideVars, noiseVars, lowTideVars, compositeVars, cloudVars, downloadVars, pipelineVars,
                   glintVars, shadowVars, exportVars>>

\* The end of the chunk with a plausible slip: the main thread goes on to the
\* next chunk without waiting for the futures.
ChunkCompletedEarly ==
    /\ main_pc = "as_completed"
    /\ main_pc' = "read_chunk"
    /\ UNCHANGED <<chunk, future, yielded>>
    /\ UNCHANGED <<tideVars, noiseVars, lowTideVars, compositeVars, cloudVars, downloadVars, pipelineVars,
                   glintVars, shadowVars, exportVars>>

\* as_completed is exhausted: the executor's with block ends, next chunk
ChunkCompleted ==
    /\ main_pc = "as_completed"
    /\ tile_ids_chunk \subseteq yielded
    /\ main_pc' = "read_chunk"
    /\ UNCHANGED <<chunk, future, yielded>>
    /\ UNCHANGED <<tideVars, noiseVars, lowTideVars, compositeVars, cloudVars, downloadVars, pipelineVars,
                   glintVars, shadowVars, exportVars>>

\* The exception leaves the executor's with block, whose exit waits for the
\* calls already submitted, then the reader's with block and the script.
Terminate ==
    /\ main_pc = "unwinding"
    /\ \A t \in tile_ids_chunk : Done(t)
    /\ main_pc' = "terminated"
    /\ UNCHANGED <<chunk, future, yielded>>
    /\ UNCHANGED <<tideVars, noiseVars, lowTideVars, compositeVars, cloudVars, downloadVars, pipelineVars,
                   glintVars, shadowVars, exportVars>>

NextPool ==
    \/ ReadChunk
    \/ EndOfFile
    \/ \E t \in Tiles : Submit(t)
    \/ \E t \in Tiles : WorkerStarts(t)
    \/ \E t \in Tiles : WorkerReturns(t)
    \/ \E t \in Tiles : WorkerRaises(t)
    \/ \E t \in Tiles : ResultLogged(t)
    \/ \E t \in Tiles : ResultRaises(t)
    \/ ChunkCompleted
    \/ Terminate

SpecPool == InitPool /\ [][NextPool]_vars

\* C9 as stated: an exception raised while processing one tile keeps no other
\* tile of the input file from being processed, in the same chunk or in a later
\* one: when the script has ended, every tile has been processed, and the script
\* has not ended on the exception.
C9_TileIsolation ==
    main_pc \in {"done", "terminated"} =>
        /\ \A t \in Tiles : Done(t)
        /\ main_pc = "done"

-----------------------------------------------------------------------------
(* NoisePredictor.calculate_image_noise, followed by                       *)
(* filter_noise_adding_images on the scored collection                     *)
(*                                                                         *)
(* The value of an image is the mean of its noise mask over its water      *)
(* pixels, here in percent (value * 100), or NoValue when the image has no *)
(* water pixel. noise_index is kept in whole units, rounded down: the      *)
(* cutoff test against 15 gives the same answer on the whole units.        *)

\* ee.Algorithms.IsEqual(value, None): the reduction has no value
NoValue == -1

\* Values in percent: clear water, some noise, the two values on either side
\* of the cutoff, all water pixels noisy.
NoiseValues == {NoValue, 0, 10, 89, 90, 100}

\* noise_power = 0.6 and noise_offset = 1.5 as fractions <<numerator, denominator>>
noise_power == <<3, 5>>
noise_offset == <<3, 2>>

RECURSIVE Pow(_, _)
Pow(b, e) == IF e = 0 THEN 1 ELSE b * Pow(b, e - 1)

\* (value * 100 + noise_offset) ** noise_power, rounded down
amplified_noise(percent) ==
    LET n == percent * noise_offset[2] + noise_offset[1]
        AtMost(y) == Pow(y, noise_power[2]) * Pow(noise_offset[2], noise_power[1])
                        <= Pow(n, noise_power[1])
    IN  CHOOSE y \in 0..(percent + noise_offset[1]) : AtMost(y) /\ ~AtMost(y + 1)

\* ee.Algorithms.If(IsEqual(value, None), 99999999, (value * 100 + 1.5) ** 0.6)
calculate_image_noise(value) ==
    IF value = NoValue THEN NOISE_SENTINEL ELSE amplified_noise(value)

InitImageNoise ==
    /\ IdleTide /\ IdleLowTide /\ IdleComposite /\ IdleCloud /\ IdlePool /\ IdleDownload /\ IdlePipeline
    /\ IdleGlint /\ IdleShadow /\ IdleExport
    /\ noise_value \in SeqsUpTo(NoiseValues, MaxNoiseImages)
    /\ min_images \in 1..MaxMinImages
    /\ noise_index = <<>>
    /\ noise_pc = "score"
    /\ filtered_ids = <<>>

\* composite_collection.map(calculate_image_noise): every image gets its noise_index
CalculateImageNoise ==
    /\ noise_pc = "score"
    /\ noise_index' = [i \in 1..Len(noise_value) |-> calculate_image_noise(noise_value[i])]
    /\ noise_pc' = "call"
    /\ UNCHANGED <<min_images, filtered_ids, noise_value>>
    /\ UNCHANGED <<tideVars, lowTideVars, compositeVars, cloudVars, poolVars, downloadVars, pipelineVars,
                   glintVars, shadowVars, exportVars>>

NextImageNoise == CalculateImageNoise \/ FilterNoiseAddingImages

SpecImageNoise == InitImageNoise /\ [][NextImageNoise]_vars

\* C11: an image whose value is undefined gets the noise_index 99999999 and no
\* image gets a null noise_index; no image with the sentinel, or with any
\* noise_index >= 15, is in the list filter_noise_adding_images returns.
C11_SentinelExcluded ==
    /\ noise_pc # "score" =>
          \A i \in 1..Len(noise_value) :
              /\ noise_index[i] # NoValue
              /\ noise_value[i] = NoValue => noise_index[i] = NOISE_SENTINEL
    /\ noise_pc \in {"returned", "raised"} =>
          \A i \in Range(filtered_ids) :
              /\ noise_value[i] # NoValue
              /\ noise_index[i] # NOISE_SENTINEL
              /\ noise_index[i] < 15

\* A collection with an image without value, an image at the cutoff and usable
\* images has been scored and filtered, and some image was selected.
C11_Witness ==
    /\ noise_pc = "returned"
    /\ \E i \in 1..Len(noise_value) : noise_value[i] = NoValue /\ noise_index[i] = NOISE_SENTINEL
    /\ \E i \in 1..Len(noise_value) : noise_index[i] = 15
    /\ filtered_ids # <<>>

-----------------------------------------------------------------------------
(* Properties of the per-orbit selection of get_low_tide_composite         *)

SegmentIds == [i \in 1..Len(tide_properties_list) |-> i]

SegmentElevation == tide_elevation(tide_properties_list)

SegmentTideType == tide_type(tide_properties_list)

\* C12 as stated: every image selected for the low-tide composite has a
\* negative predicted tide elevation.
C12_SelectedBelowMsl ==
    lt_pc = "composite" =>
        \A i \in filtered_collection : SegmentElevation[i] < 0

\* The below-mean-sea-level images of a tide type, in ascending elevation order
CategoryAscending(type) ==
    sorted(SelectSeq(SegmentIds,
                     LAMBDA i : SegmentElevation[i] < 0 /\ SegmentTideType[i] = type),
           SegmentElevation)

\* The images gathered by walking the priority order, a category being added
\* only while fewer than minImages images have been gathered
WalkPriorityOrder ==
    LET order == tide_type_order(lt_args.tide_type_focus)
        short(g) == Len(g) < lt_args.min_images_in_collection
        g1 == IF Len(order) >= 1 THEN CategoryAscending(order[1]) ELSE <<>>
        g2 == IF Len(order) >= 2 /\ short(g1) THEN g1 \o CategoryAscending(order[2]) ELSE g1
        g3 == IF Len(order) >= 3 /\ short(g2) THEN g2 \o CategoryAscending(order[3]) ELSE g2
    IN  g3

\* ... then the incoming-tide images if still short
WalkThenIncoming ==
    IF Len(WalkPriorityOrder) < lt_args.min_images_in_collection
    THEN WalkPriorityOrder \o CategoryAscending(INCOMING_TIDE)
    ELSE WalkPriorityOrder

StillShort == Len(WalkThenIncoming) < lt_args.min_images_in_collection

\* The images of the whole segment, lowest elevation first
LowestOfSegment == sorted(SegmentIds, SegmentElevation)

gathered_candidates ==
    LET list == tide_properties_list
        min_n == lt_args.min_images_in_collection
        order == tide_type_order(lt_args.tide_type_focus)
        with_incoming == add_incoming_tide(list, min_n,
                                           gather_by_tide_type(list, order, 1, min_n, <<>>))
    IN  IF Len(with_incoming) < min_n THEN LowestOfSegment ELSE with_incoming

\* C19 as stated: the final list of a segment has at most maxImages images, and
\* no candidate the truncation drops has a lower tide elevation than one it
\* keeps.
C19_TruncationKeepsLowest ==
    lt_pc # "orbit" =>
        /\ Len(tide_image_list) <= lt_args.max_images_in_collection
        /\ \A d \in (Len(tide_image_list) + 1)..Len(gathered_candidates) :
              \A k \in 1..Len(tide_image_list) :
                  ~(SegmentElevation[gathered_candidates[d]]
                        < SegmentElevation[tide_image_list[k]])

-----------------------------------------------------------------------------
(* Sentinel2Processor._add_s2_cloud_mask (the same code as                 *)
(* CloudHandler._add_s2_cloud_mask) followed by _add_s2_cloud_shadow_mask  *)
(*                                                                         *)
(* The image's probability layer is the first image of                     *)
(* COPERNICUS/S2_CLOUD_PROBABILITY with the system:index of the image.     *)

\* The images of COPERNICUS/S2_CLOUD_PROBABILITY that pass
\* ee.Filter.equals("system:index", original_id): none or one
MatchingCloudImages == SeqsUpTo([Pixels -> ProbLevels], 1)

\* ImageCollection.first()
first(collection) == IF collection = <<>> THEN Null ELSE collection[1]

\* _add_s2_cloud_mask: the value of the property "s2cloudless" of the image
_add_s2_cloud_mask(matching) == first(matching)

InitCloudJoin ==
    /\ IdleTide /\ IdleNoise /\ IdleLowTide /\ IdleComposite /\ IdlePool /\ IdleDownload /\ IdlePipeline
    /\ IdleGlint /\ IdleShadow /\ IdleExport
    /\ \E matching \in MatchingCloudImages : s2cloudless = _add_s2_cloud_mask(matching)
    /\ shadow_side \in ShadowAzimuths
    /\ cloud_pc = "call"
    /\ cloud_bands = <<>>

\* ee.Image(normalised_image.get("s2cloudless")).select("probability") on null:
\* the code has no branch for a missing layer, and the computation of the mask
\* of the image fails on the missing input.
CloudProbabilityMissing ==
    /\ cloud_pc = "call"
    /\ s2cloudless = Null
    /\ cloud_pc' = "error"
    /\ UNCHANGED <<s2cloudless, shadow_side, cloud_bands>>
    /\ UNCHANGED <<tideVars, noiseVars, lowTideVars, compositeVars, poolVars, downloadVars, pipelineVars,
                   glintVars, shadowVars, exportVars>>

NextCloudJoin == AddS2CloudShadowMask \/ CloudProbabilityMissing

SpecCloudJoin == InitCloudJoin /\ [][NextCloudJoin]_vars

\* C13 as stated: for an image without matching cloud-probability layer the
\* cloud masking ends without error and the combined mask is false at every
\* pixel.
C13_MissingLayerCloudFree ==
    (cloud_pc # "call" /\ s2cloudless = Null) =>
        /\ cloud_pc = "returned"
        /\ \A p \in Pixels : cloud_bands.cloudmask[p] = 0

-----------------------------------------------------------------------------
(* TidePredictor.__init__: the water centroid of the tile is looked up in  *)
(* the centroid table and the harmonic constants are interpolated there.   *)

MaxCentroidRows == 2

TileIds == {"51KWB", "55KDA", "56KKC"}

\* A row of sentinel2-study-area-water-centroids.csv
CentroidRows == [Name : TileIds, X : {145, 150}, Y : {-20}]

\* self.tile_water_centroids[self.tile_water_centroids["Name"] == tile_id]:
\* the rows of the tile, none if the tile has no row
filtered_data(table, id) == SelectSeq(table, LAMBDA row : row.Name = id)

\* _get_tile_water_centroid: the coordinate arrays of the rows of the tile
_get_tile_water_centroid(table, id) ==
    LET rows == filtered_data(table, id)
    IN  [lat |-> [i \in 1..Len(rows) |-> rows[i].Y],
         lon |-> [i \in 1..Len(rows) |-> rows[i].X]]

\* pyTMD.io.FES.interpolate_constants(lon, lat, ...): the constants at each of
\* the points given, one entry per point
interpolate_constants(lon, lat) ==
    [i \in 1..Len(lon) |-> [lon |-> lon[i], lat |-> lat[i]]]

\* _set_hc: self.hc = amp * np.exp(cph), an array with one row per point
_set_hc(table, id) ==
    LET centroid == _get_tile_water_centroid(table, id)
    IN  [assigned |-> TRUE, points |-> interpolate_constants(centroid.lon, centroid.lat)]

InitPredictor ==
    /\ IdleNoise /\ IdleLowTide /\ IdleComposite /\ IdleCloud /\ IdlePool /\ IdleDownload /\ IdlePipeline
    /\ IdleGlint /\ IdleShadow /\ IdleExport
    /\ image_date_time = 0
    /\ tide_curve = <<>>
    /\ tide_result = <<>>
    /\ tile_water_centroids \in SeqsUpTo(CentroidRows, MaxCentroidRows)
    /\ tile_id \in TileIds
    /\ tide_pc = "init"
    /\ hc = None

\* __init__ has no statement that raises and no test of the rows found: the
\* predictor is constructed with the constants of as many points as the tile
\* has rows.
TidePredictorInit ==
    /\ tide_pc = "init"
    /\ hc' = _set_hc(tile_water_centroids, tile_id)
    /\ tide_pc' = "constructed"
    /\ UNCHANGED <<image_date_time, tide_curve, tide_result, tile_water_centroids, tile_id>>
    /\ UNCHANGED <<noiseVars, lowTideVars, compositeVars, cloudVars, poolVars, downloadVars, pipelineVars,
                   glintVars, shadowVars, exportVars>>

NextPredictor == TidePredictorInit

SpecPredictor == InitPredictor /\ [][NextPredictor]_vars

\* C14 as stated: constructing a TidePredictor for a tile without row in the
\* centroid table ends in a lookup error, and no predictor is produced (none
\* with empty or defaulted harmonic constants).
C14_MissingCentroidLookupError ==
    (tide_pc # "init" /\ filtered_data(tile_water_centroids, tile_id) = <<>>) =>
        /\ tide_pc = "lookup_error"
        /\ hc = None

-----------------------------------------------------------------------------
(* download-aims-s2.py: main calls DataDownloader.download for each tile   *)
(* in turn. Tile t has the destination path fs[t].path and the temporary   *)
(* path fs[t].tmp (path + '.tmp'); a file is "absent", "partial" or        *)
(* "complete".                                                             *)

MaxDownloadTiles == 2
MaxRetries == 2
MaxAttempts == 3

\* A run starts on what earlier runs left: complete files at destination
\* paths, and the temporary file of a download that was cut off.
FilesBefore == [path : {"absent", "complete"}, tmp : {"absent", "partial"}]

\* os.path.exists with a plausible slip: never true.
path_exists_never(file) == FALSE

\* os.path.exists(path)
path_exists(file) == file # "absent"

\* The finally clause with a plausible slip: the temporary file stays.
remove_tmp_skipped(files, t) == files

\* finally: if os.path.exists(tmp_path): os.remove(tmp_path)
remove_tmp(files, t) == [files EXCEPT ![t].tmp = "absent"]

\* The tile main is working on
current_tile == tile_index

InitDownload ==
    /\ IdleTide /\ IdleNoise /\ IdleLowTide /\ IdleComposite /\ IdleCloud /\ IdlePool /\ IdlePipeline
    /\ IdleGlint /\ IdleShadow /\ IdleExport
    /\ max_retries \in 1..MaxRetries
    /\ fs \in SeqsUpTo(FilesBefore, MaxDownloadTiles) \ {<<>>}
    /\ fs_before = fs
    /\ tile_index = 0
    /\ dl_pc = "main"
    /\ attempt = 0
    /\ missing_tiles = <<>>
    /\ attempts = [t \in 1..Len(fs) |-> 0]

\* download: os.path.exists(path) holds, "Skipping download"
SkipExisting ==
    /\ dl_pc = "main"
    /\ tile_index < Len(fs)
    /\ path_exists(fs[tile_index + 1].path)
    /\ tile_index' = tile_index + 1
    /\ UNCHANGED <<max_retries, dl_pc, attempt, fs, fs_before, missing_tiles, attempts>>
    /\ UNCHANGED <<tideVars, noiseVars, lowTideVars, compositeVars, cloudVars, poolVars, pipelineVars,
                   glintVars, shadowVars, exportVars>>

\* download: the path does not exist; attempt = 0 and the retry loop is entered
StartDownload ==
    /\ dl_pc = "main"
    /\ tile_index < Len(fs)
    /\ ~path_exists(fs[tile_index + 1].path)
    /\ tile_index' = tile_index + 1
    /\ attempt' = 0
    /\ dl_pc' = "loop"
    /\ UNCHANGED <<max_retries, fs, fs_before, missing_tiles, attempts>>
    /\ UNCHANGED <<tideVars, noiseVars, lowTideVars, compositeVars, cloudVars, poolVars, pipelineVars,
                   glintVars, shadowVars, exportVars>>

\* The guard of an iteration of "while attempt < self.max_retries" that calls urlretrieve
Attempting ==
    /\ dl_pc = "loop"
    /\ attempt < max_retries
    /\ attempts[current_tile] < MaxAttempts
    /\ attempts' = [attempts EXCEPT ![current_tile] = @ + 1]

\* urlretrieve and os.rename succeed: break
AttemptSucceeds ==
    /\ Attempting
    /\ fs' = [fs EXCEPT ![current_tile] = [path |-> "complete", tmp |-> "absent"]]
    /\ dl_pc' = "main"
    /\ UNCHANGED <<max_retries, tile_index, attempt, fs_before, missing_tiles>>
    /\ UNCHANGED <<tideVars, noiseVars, lowTideVars, compositeVars, cloudVars, poolVars, pipelineVars,
                   glintVars, shadowVars, exportVars>>

\* The 404 branch with a plausible slip: no break, the loop goes on.
AttemptNotFoundRetries ==
    /\ Attempting
    /\ missing_tiles' = Append(missing_tiles, current_tile)
    /\ fs' = remove_tmp(fs, current_tile)
    /\ UNCHANGED <<max_retries, tile_index, dl_pc, attempt, fs_before>>
    /\ UNCHANGED <<tideVars, noiseVars, lowTideVars, compositeVars, cloudVars, poolVars, pipelineVars,
                   glintVars, shadowVars, exportVars>>

\* HTTPError with code 404: the tile is appended to missing_tiles, break
AttemptNotFound ==
    /\ Attempting
    /\ missing_tiles' = Append(missing_tiles, current_tile)
    /\ fs' = remove_tmp(fs, current_tile)
    /\ dl_pc' = "main"
    /\ UNCHANGED <<max_retries, tile_index, attempt, fs_before>>
    /\ UNCHANGED <<tideVars, noiseVars, lowTideVars, compositeVars, cloudVars, poolVars, pipelineVars,
                   glintVars, shadowVars, exportVars>>

\* HTTPError with another code: printed; attempt is not incremented and the
\* loop goes on
AttemptHttpError ==
    /\ Attempting
    /\ fs' = remove_tmp(fs, current_tile)
    /\ UNCHANGED <<max_retries, tile_index, dl_pc, attempt, fs_before, missing_tiles>>
    /\ UNCHANGED <<tideVars, noiseVars, lowTideVars, compositeVars, cloudVars, poolVars, pipelineVars,
                   glintVars, shadowVars, exportVars>>

\* URLError, IncompleteRead or ConnectionResetError: attempt += 1, the part
\* written to tmp_path is removed, and the loop goes on
AttemptNetworkError ==
    /\ Attempting
    /\ attempt' = attempt + 1
    /\ fs' = remove_tmp(fs, current_tile)
    /\ UNCHANGED <<max_retries, tile_index, dl_pc, fs_before, missing_tiles>>
    /\ UNCHANGED <<tideVars, noiseVars, lowTideVars, compositeVars, cloudVars, poolVars, pipelineVars,
                   glintVars, shadowVars, exportVars>>

\* IOError: break
AttemptIOError ==
    /\ Attempting
    /\ fs' = remove_tmp(fs, current_tile)
    /\ dl_pc' = "main"
    /\ UNCHANGED <<max_retries, tile_index, attempt, fs_before, missing_tiles>>
    /\ UNCHANGED <<tideVars, noiseVars, lowTideVars, compositeVars, cloudVars, poolVars, pipelineVars,
                   glintVars, shadowVars, exportVars>>

\* "while attempt < self.max_retries" is false: download returns
RetriesExhausted ==
    /\ dl_pc = "loop"
    /\ attempt >= max_retries
    /\ dl_pc' = "main"
    /\ UNCHANGED <<max_retries, tile_index, attempt, fs, fs_before, missing_tiles, attempts>>
    /\ UNCHANGED <<tideVars, noiseVars, lowTideVars, compositeVars, cloudVars, poolVars, pipelineVars,
                   glintVars, shadowVars, exportVars>>

\* The loops over the tiles end: "All downloads completed"
AllDownloadsCompleted ==
    /\ dl_pc = "main"
    /\ tile_index = Len(fs)
    /\ dl_pc' = "done"
    /\ UNCHANGED <<max_retries, tile_index, attempt, fs, fs_before, missing_tiles, attempts>>
    /\ UNCHANGED <<tideVars, noiseVars, lowTideVars, compositeVars, cloudVars, poolVars, pipelineVars,
                   glintVars, shadowVars, exportVars>>

NextDownload ==
    \/ SkipExisting
    \/ StartDownload
    \/ AttemptSucceeds
    \/ AttemptNotFound
    \/ AttemptHttpError
    \/ AttemptNetworkError
    \/ AttemptIOError
    \/ RetriesExhausted
    \/ AllDownloadsCompleted

SpecDownload == InitDownload /\ [][NextDownload]_vars

\* C15: download called for a destination path that exists makes no download
\* attempt and leaves the file, the temporary path and missing_tiles as they
\* are; in a run of the script, download attempts are made only for tiles whose
\* destination file was not there when the run started.
C15_ExistingPathSkipped ==
    /\ [](\A t \in 1..Len(fs) : attempts[t] > 0 => fs_before[t].path = "absent")
    /\ [][(dl_pc = "main" /\ tile_index < Len(fs) /\ fs[tile_index + 1].path # "absent")
             => /\ fs' = fs
                /\ missing_tiles' = missing_tiles
                /\ attempts' = attempts
                /\ dl_pc' = "main"
                /\ tile_index' = tile_index + 1]_downloadVars

\* The first tile was there, with a temporary file next to it, and was skipped;
\* the second tile was not there and has been downloaded.
C15_Witness ==
    /\ dl_pc = "done"
    /\ Len(fs) = 2
    /\ fs_before[1] = [path |-> "complete", tmp |-> "partial"]
    /\ fs[1] = fs_before[1]
    /\ attempts[1] = 0
    /\ fs_before[2].path = "absent"
    /\ fs[2].path = "complete"

-----------------------------------------------------------------------------
(* Properties of the extension loop of filter_noise_adding_images          *)

\* The statistic of the first a ranked images is greater than that of the first b
StatisticGreater(a, b) ==
    WideGreater(WideMul(StatSum(a) * StatSum(a), b * b * b),
                WideMul(StatSum(b) * StatSum(b), a * a * a))

\* The extended prefixes the loop forms: range(min_images + 1, len(list))
ExtendedPrefixes == (min_images + 1)..(Available - 1)

C17_ExhaustsList ==
    (noise_pc = "returned"
     /\ \A e \in (min_images + 1)..Available : ~StatisticGreater(e, e - 1)) =>
        Len(filtered_ids) = Available

-----------------------------------------------------------------------------
(* The stages of Sentinel2Processor.get_composite and                      *)
(* get_low_tide_composite for one tile, in the order of the statements.    *)
(* Images are numbered in ascending CLOUDY_PIXEL_PERCENTAGE.               *)

MaxPipelineImages == 3

\* composite_collection.limit(max_images_in_collection, "CLOUDY_PIXEL_PERCENTAGE", True)
limit(collection, n) == {i \in collection : Cardinality({j \in collection : j < i}) < n}

InitPipeline ==
    /\ IdleTide /\ IdleNoise /\ IdleLowTide /\ IdleComposite /\ IdleCloud /\ IdlePool /\ IdleDownload
    /\ IdleGlint /\ IdleShadow /\ IdleExport
    /\ pl_function \in {"get_composite", "get_low_tide_composite"}
    /\ correct_sunglint \in BOOLEAN
    /\ \E n \in 1..MaxPipelineImages : pl_candidates = 1..n
    /\ IF pl_function = "get_composite"
       THEN max_images \in 1..MaxPipelineImages /\ pl_low_tide = {}
       ELSE max_images = 0 /\ pl_low_tide \in (SUBSET pl_candidates) \ {{}}
    /\ pl_collection = {}
    /\ pl_corrected = {}
    /\ pl_stages = <<>>
    /\ pl_pc = "collect"

PipelineUnchanged ==
    UNCHANGED <<pl_function, correct_sunglint, max_images, pl_candidates, pl_low_tide>>

\* self.get_composite_collection(tile_id, max_cloud_cover, start_date, end_date)
GetCompositeCollection ==
    /\ pl_pc = "collect"
    /\ pl_collection' = pl_candidates
    /\ pl_pc' = IF pl_function = "get_composite" THEN "limit" ELSE "sunglint"
    /\ PipelineUnchanged
    /\ UNCHANGED <<pl_corrected, pl_stages>>
    /\ UNCHANGED <<tideVars, noiseVars, lowTideVars, compositeVars, cloudVars, poolVars, downloadVars,
                   glintVars, shadowVars, exportVars>>

\* get_composite: the selection, composite_collection.limit(...)
LimitImages ==
    /\ pl_pc = "limit"
    /\ pl_collection' = limit(pl_collection, max_images)
    /\ pl_stages' = Append(pl_stages, "selection")
    /\ pl_pc' = "sunglint"
    /\ PipelineUnchanged
    /\ UNCHANGED pl_corrected
    /\ UNCHANGED <<tideVars, noiseVars, lowTideVars, compositeVars, cloudVars, poolVars, downloadVars,
                   glintVars, shadowVars, exportVars>>

\* The stage after "if correct_sunglint: ...": get_composite goes on to
\* _create_composite, get_low_tide_composite to the selection by tide
AfterSunGlint == IF pl_function = "get_composite" THEN "reduce" ELSE "select"

\* if correct_sunglint: composite_collection = composite_collection.map(self.remove_sun_glint)
RemoveSunGlint ==
    /\ pl_pc = "sunglint"
    /\ correct_sunglint
    /\ pl_corrected' = pl_collection
    /\ pl_stages' = Append(pl_stages, "correction")
    /\ pl_pc' = AfterSunGlint
    /\ PipelineUnchanged
    /\ UNCHANGED pl_collection
    /\ UNCHANGED <<tideVars, noiseVars, lowTideVars, compositeVars, cloudVars, poolVars, downloadVars,
                   glintVars, shadowVars, exportVars>>

\* correct_sunglint is false
KeepSunGlint ==
    /\ pl_pc = "sunglint"
    /\ ~correct_sunglint
    /\ pl_pc' = AfterSunGlint
    /\ PipelineUnchanged
    /\ UNCHANGED <<pl_collection, pl_corrected, pl_stages>>
    /\ UNCHANGED <<tideVars, noiseVars, lowTideVars, compositeVars, cloudVars, poolVars, downloadVars,
                   glintVars, shadowVars, exportVars>>

\* get_low_tide_composite: the loop over the orbit numbers and
\* composite_collection.filter(index_filter)
SelectLowTideImages ==
    /\ pl_pc = "select"
    /\ pl_collection' = pl_low_tide
    /\ pl_stages' = Append(pl_stages, "selection")
    /\ pl_pc' = "reduce"
    /\ PipelineUnchanged
    /\ UNCHANGED pl_corrected
    /\ UNCHANGED <<tideVars, noiseVars, lowTideVars, compositeVars, cloudVars, poolVars, downloadVars,
                   glintVars, shadowVars, exportVars>>

\* _create_composite of one image: the reduction without cloud mask
ReduceSingleImage ==
    /\ pl_pc = "reduce"
    /\ ~more_than_one_image(Cardinality(pl_collection))
    /\ pl_stages' = Append(pl_stages, "reduction")
    /\ pl_pc' = "done"
    /\ PipelineUnchanged
    /\ UNCHANGED <<pl_collection, pl_corrected>>
    /\ UNCHANGED <<tideVars, noiseVars, lowTideVars, compositeVars, cloudVars, poolVars, downloadVars,
                   glintVars, shadowVars, exportVars>>

\* _create_composite of more images: composite_collection.map(self.mask_clouds) ...
MaskClouds ==
    /\ pl_pc = "reduce"
    /\ more_than_one_image(Cardinality(pl_collection))
    /\ pl_stages' = Append(pl_stages, "masking")
    /\ pl_pc' = "reduce_masked"
    /\ PipelineUnchanged
    /\ UNCHANGED <<pl_collection, pl_corrected>>
    /\ UNCHANGED <<tideVars, noiseVars, lowTideVars, compositeVars, cloudVars, poolVars, downloadVars,
                   glintVars, shadowVars, exportVars>>

\* ... .reduce(ee.Reducer.percentile([15], ["p15"])), the mosaic and the return
ReduceMasked ==
    /\ pl_pc = "reduce_masked"
    /\ pl_stages' = Append(pl_stages, "reduction")
    /\ pl_pc' = "done"
    /\ PipelineUnchanged
    /\ UNCHANGED <<pl_collection, pl_corrected>>
    /\ UNCHANGED <<tideVars, noiseVars, lowTideVars, compositeVars, cloudVars, poolVars, downloadVars,
                   glintVars, shadowVars, exportVars>>

NextPipeline ==
    \/ GetCompositeCollection
    \/ LimitImages
    \/ RemoveSunGlint
    \/ KeepSunGlint
    \/ SelectLowTideImages
    \/ ReduceSingleImage
    \/ MaskClouds
    \/ ReduceMasked

SpecPipeline == InitPipeline /\ [][NextPipeline]_vars

\* The position of a stage among the stages run; 0 if it has not run
StagePosition(stage) ==
    IF \E k \in 1..Len(pl_stages) : pl_stages[k] = stage
    THEN CHOOSE k \in 1..Len(pl_stages) : pl_stages[k] = stage
    ELSE 0

\* stage a, if it has run, ran after stage b
RanAfter(a, b) ==
    StagePosition(a) > 0 => (StagePosition(b) > 0 /\ StagePosition(b) < StagePosition(a))

\* C20 as stated: in both methods the image selection completes before the
\* sun-glint correction, the correction runs before cloud masking and cloud
\* masking before the percentile reduction; the correction is applied only to
\* images of the final selected set.
C20_StageOrder ==
    /\ RanAfter("correction", "selection")
    /\ StagePosition("masking") > 0 /\ StagePosition("correction") > 0
          => StagePosition("correction") < StagePosition("masking")
    /\ StagePosition("masking") > 0 /\ StagePosition("reduction") > 0
          => StagePosition("masking") < StagePosition("reduction")
    /\ pl_pc = "done" => pl_corrected \subseteq pl_collection

(***************************************************************************)
(* The percentiles of the two reductions of _create_composite             *)
(* (src/src/processors/s2processor.py, lines 268-285).                    *)
(*                                                                         *)
(* _create_composite takes the collection alone. The percentile a script  *)
(* names for its composite (PERCENTILE) is not passed to it: the unmasked  *)
(* reduction is written with [50] and the masked reduction with [15]. The  *)
(* two differ from three images on, so the collections here are longer     *)
(* than those of SpecComposite and drawn from fewer images.                *)
(***************************************************************************)

MaxReduceImages == 3

\* PERCENTILE of create-composite.py and of create-low-tide-composite.py
RequestedPercentiles == {15, 30}

\* Images under a clear sky or with a thin cloud over the first pixel
ReduceImages ==
    {img \in CompositeImages :
        \A q \in Pixels : q # 1 => img.probability[q] = 0}

InitReduce ==
    /\ IdleTide /\ IdleNoise /\ IdleLowTide /\ IdleCloud /\ IdlePool /\ IdleDownload /\ IdlePipeline
    /\ IdleGlint /\ IdleShadow /\ IdleExport
    /\ composite_collection \in SeqsUpTo(ReduceImages, MaxReduceImages)
    /\ solar_azimuth \in ShadowAzimuths
    /\ comp_pc = "call"
    /\ composite = <<>>

NextReduce == CreateComposite

SpecReduce == InitReduce /\ [][NextReduce]_vars

\* The values the images of the collection have in band "B", unmasked and
\* after mask_clouds
UnmaskedRows == [i \in 1..Len(composite_collection) |-> composite_collection[i].value]

MaskedRows ==
    [i \in 1..Len(composite_collection) |->
        mask_clouds(composite_collection[i], solar_azimuth).B]

\* C21: composite A (unmasked images) and composite B (cloud-masked images)
\* are the per-band reductions of the same image set at one percentile p, the
\* percentile requested for the composite.
C21_SamePercentile ==
    (comp_pc = "returned" /\ Len(composite_collection) > 1) =>
        \E p \in RequestedPercentiles :
            /\ composite_collection_no_cloud_mask(composite_collection).B
                    = reduce_percentile(UnmaskedRows, p)
            /\ composite_collection_with_cloud_mask(composite_collection, solar_azimuth).B
                    = reduce_percentile(MaskedRows, p)

(***************************************************************************)
(* SunGlintHandler.filter_high_sun_glint_images                            *)
(* (src/src/utilities/sun_glint_handler.py, lines 7-66).                   *)
(*                                                                         *)
(* An image is the number of its water pixels (NDWI > 0) and the number of *)
(* those the sun-glint mask marks. The proportion is the mean of the mask  *)
(* over the water pixels, kept as the fraction <<glinted, water>>; an      *)
(* image without a water pixel has no proportion (the reducer yields       *)
(* null), and the filter matches no image without the property.            *)
(***************************************************************************)

MaxGlintImages == 2
MaxWaterPixels == 5

\* sun_glint_proportion_threshold = 0.2, as a fraction
sun_glint_proportion_threshold == <<1, 5>>

GlintImages ==
    {img \in [glinted : 0..MaxWaterPixels, water : 0..MaxWaterPixels] :
        img.glinted <= img.water}

\* calculate_sun_glint_proportion: reduceRegion(mean) of the glint mask under
\* the water mask
calculate_sun_glint_proportion(image) ==
    IF image.water = 0 THEN Null ELSE <<image.glinted, image.water>>

\* ee.Filter.lt(property, threshold) on one value of the property
lt(value, threshold) ==
    /\ value # Null
    /\ value[1] * threshold[2] < threshold[1] * value[2]

filter_high_sun_glint_images(collection) ==
    LET images_with_sun_glint_proportion ==
            [i \in 1..Len(collection) |-> calculate_sun_glint_proportion(collection[i])]
    IN  {i \in 1..Len(collection) :
            lt(images_with_sun_glint_proportion[i], sun_glint_proportion_threshold)}

InitGlint ==
    /\ IdleTide /\ IdleNoise /\ IdleLowTide /\ IdleComposite /\ IdleCloud /\ IdlePool
    /\ IdleDownload /\ IdlePipeline /\ IdleShadow /\ IdleExport
    /\ glint_collection \in SeqsUpTo(GlintImages, MaxGlintImages)
    /\ glint_pc = "call"
    /\ glint_filtered = {}

FilterHighSunGlintImages ==
    /\ glint_pc = "call"
    /\ glint_filtered' = filter_high_sun_glint_images(glint_collection)
    /\ glint_pc' = "returned"
    /\ UNCHANGED glint_collection
    /\ UNCHANGED <<tideVars, noiseVars, lowTideVars, compositeVars, cloudVars, poolVars,
                   downloadVars, pipelineVars, shadowVars, exportVars>>

NextGlint == FilterHighSunGlintImages

SpecGlint == InitGlint /\ [][NextGlint]_vars

\* The proportion of glinted water pixels of image i exceeds 0.2
ExceedsThreshold(i) ==
    5 * glint_collection[i].glinted > glint_collection[i].water

\* C22: an image with a proportion of glinted water pixels is kept if and only
\* if its proportion does not exceed 0.2.
C22_KeptIffNotExceeding ==
    glint_pc = "returned" =>
        \A i \in 1..Len(glint_collection) :
            glint_collection[i].water > 0 =>
                (i \in glint_filtered <=> ~ExceedsThreshold(i))

(***************************************************************************)
(* The near-infrared band in a pass of the cloud and shadow mask           *)
(* (src/src/processors/s2processor.py, lines 735-825, and the copy of the  *)
(* method in src/src/utilities/cloud_handler.py, lines 207-297).           *)
(*                                                                         *)
(* A pass reads band B8 of the image into dark_pixels and multiplies the   *)
(* projected cloud mask with it into shadows; the mask it buffers is       *)
(* is_cloud_or_shadow. Here the image carries its B8 row, in hundredths of *)
(* the normalised reflectance, and the pass is written out with every      *)
(* intermediate image of the code. Two images of the same scene are masked *)
(* one after the other.                                                    *)
(***************************************************************************)

\* nir_drk_thresh = 0.15, in hundredths
nir_drk_thresh == 15

\* B8 of a dark and of a bright pixel
NirLevels == {10, 20}

\* B8 rows: the first pixel and the rest of the row, each dark or bright
NirRows ==
    {[p \in Pixels |-> IF p = 1 THEN a ELSE b] : a \in NirLevels, b \in NirLevels}

\* normalised_image.select("B8").lt(nir_drk_thresh)
dark_pixels(B8) == [p \in Pixels |-> IF B8[p] < nir_drk_thresh THEN 1 ELSE 0]

\* cloud_proj.multiply(dark_pixels)
shadows(cloud_proj, dark) == [p \in Pixels |-> cloud_proj[p] * dark[p]]

\* The statement the code keeps as a comment: is_cloud.add(shadows).gt(0)
is_cloud_or_shadow_dark(is_cloud, cloud_proj, shadow) ==
    [p \in Pixels |-> IF is_cloud[p] + shadow[p] > 0 THEN 1 ELSE 0]

\* is_cloud_or_shadow = cloud_proj
is_cloud_or_shadow(is_cloud, cloud_proj, shadow) == cloud_proj

\* _get_s2_cloud_shadow_mask on an image with its band B8
shadow_mask_of_image(normalised_image, cloud_prob_thresh, erosion, proj_pixels, buffer) ==
    LET dark == dark_pixels(normalised_image.B8)
        shadow_azimuth == normalised_image.shadow_azimuth
        is_cloud == [p \in Pixels |->
                        IF normalised_image.s2cloudless[p] > cloud_prob_thresh THEN 1 ELSE 0]
        is_cloud_erosion_dilation ==
            IF erosion > 0
            THEN focal_max(focal_min(is_cloud, ToPixels(erosion)), ToPixels(erosion))
            ELSE is_cloud
        cloud_proj == directionalDistanceTransform(is_cloud_erosion_dilation, shadow_azimuth,
                                                   ToPixels(proj_pixels * PROJ_SCALE))
        shadow == shadows(cloud_proj, dark)
    IN  focal_max(is_cloud_or_shadow(is_cloud, cloud_proj, shadow), ToPixels(buffer))

\* _add_s2_cloud_shadow_mask on an image with its band B8
shadow_bands_of_image(normalised_image) ==
    LET low_cloud_mask ==
            shadow_mask_of_image(normalised_image, LOW_CLOUD_PROB,
                                 LOW_EROSION, LOW_PROJ_PIXELS, LOW_BUFFER)
        high_cloud_mask ==
            shadow_mask_of_image(normalised_image, HIGH_CLOUD_PROB,
                                 HIGH_EROSION, HIGH_PROJ_PIXELS, HIGH_BUFFER)
    IN  [cloudmask |-> combine_cloud_masks(high_cloud_mask, low_cloud_mask),
         highcloudmask |-> high_cloud_mask,
         lowcloudmask |-> low_cloud_mask]

InitShadow ==
    /\ IdleTide /\ IdleNoise /\ IdleLowTide /\ IdleComposite /\ IdleCloud /\ IdlePool
    /\ IdleDownload /\ IdlePipeline /\ IdleGlint /\ IdleExport
    /\ \E probability \in ProbabilityRows, azimuth \in ShadowAzimuths :
        \E nir1 \in NirRows, nir2 \in NirRows :
            image_pair = << [B8 |-> nir1, s2cloudless |-> probability,
                             shadow_azimuth |-> azimuth],
                           [B8 |-> nir2, s2cloudless |-> probability,
                             shadow_azimuth |-> azimuth] >>
    /\ pair_bands = <<Null, Null>>

\* _add_s2_cloud_shadow_mask on image k of the pair
AddShadowMaskTo(k) ==
    /\ pair_bands # <<>>
    /\ pair_bands[k] = Null
    /\ pair_bands' = [pair_bands EXCEPT ![k] = shadow_bands_of_image(image_pair[k])]
    /\ UNCHANGED image_pair
    /\ UNCHANGED <<tideVars, noiseVars, lowTideVars, compositeVars, cloudVars, poolVars,
                   downloadVars, pipelineVars, glintVars, exportVars>>

NextShadow == \E k \in {1, 2} : AddShadowMaskTo(k)

SpecShadow == InitShadow /\ [][NextShadow]_vars

\* Both images of the pair have their masks
BothMasked == pair_bands # <<>> /\ pair_bands[1] # Null /\ pair_bands[2] # Null

C24_SamplesAtImageTime ==
    tide_pc = "returned" =>
        /\ tide_time(image_date_time)
                = <<image_date_time - TWO_HOURS, image_date_time, image_date_time + TWO_HOURS>>
        /\ tide_result[1] = tide_curve[image_date_time]

(***************************************************************************)
(* Properties of the retry loop of DataDownloader.download                 *)
(* (src/src/download-aims-s2.py, lines 58-85).                             *)
(***************************************************************************)

\* download has returned for tile t
Returned(t) == t < tile_index \/ (t = tile_index /\ dl_pc # "loop")

\* The number of entries of missing_tiles that are tile t
TimesMissing(t) == Cardinality({i \in 1..Len(missing_tiles) : missing_tiles[i] = t})

\* C25: for one file, download makes at most max_retries attempts, whatever
\* errors the attempts produce.
C25_AtMostMaxRetries ==
    \A t \in 1..Len(fs) : attempts[t] <= max_retries

\* C26: an attempt that fails with 404 appends the tile to missing_tiles once,
\* is the last attempt for the file and leaves no destination file; a tile gets
\* into missing_tiles in no other way than by a failing attempt for it.
C26_NotFoundRecordedOnce ==
    /\ [](\A t \in 1..Len(fs) :
            /\ TimesMissing(t) <= 1
            /\ TimesMissing(t) = 1 =>
                    /\ attempts[t] > 0
                    /\ fs[t].path = "absent"
                    /\ Returned(t))
    /\ [][/\ \A t \in 1..Len(fs) : TimesMissing(t) = 1 => attempts'[t] = attempts[t]
          /\ missing_tiles' # missing_tiles =>
                /\ missing_tiles' = Append(missing_tiles, current_tile)
                /\ attempts'[current_tile] = attempts[current_tile] + 1]_downloadVars

\* The first tile answered 404 on the attempt after a network error, the
\* second tile was downloaded.
C26_Witness ==
    /\ dl_pc = "done"
    /\ Len(fs) = 2
    /\ missing_tiles = <<1>>
    /\ attempts[1] = 2
    /\ fs[1].path = "absent"
    /\ fs[2].path = "complete"

no_data_value == 0

\* Normalised values of a band, in tenths: 0, 0.2, 0.3, 1 and a value above 1
ExportLevels == {0, 2, 3, 10, 12}

\* self.VIS_OPTIONS[...]["visParams"] for the first band, min and max in tenths
VIS_OPTIONS ==
    [TrueColour |-> [min |-> 0, max |-> 10, gamma |-> 1],
     Infrared |-> [min |-> 0, max |-> 3, gamma |-> 1]]

\* The footprint of an image: the whole row or the row without its first pixel
Footprints == {Pixels, Pixels \ {1}}

ExportImages ==
    {img \in [value : [Pixels -> ExportLevels \cup {NoData}], footprint : Footprints] :
        \A p \in Pixels : p \notin img.footprint => img.value[p] = NoData}

\* image.unmask(value): the masked pixels inside the footprint get the value
unmask(image, value) ==
    [p \in Pixels |->
        IF image.value[p] = NoData /\ p \in image.footprint THEN value ELSE image.value[p]]

\* clamp(0, 1) of the fraction num / den
clamp(num, den) == IF num < 0 THEN 0 ELSE IF num > den THEN den ELSE num

\* enhance_contrast: subtract(min).divide(max - min).clamp(0, 1).pow(1 / gamma),
\* as the fraction <<numerator, denominator>>; gamma is 1 in every option
enhance_contrast(v, min, max, gamma) == <<clamp(v - min, max - min), max - min>>

\* visualise_image on one pixel of the band
visualise_image(v, option) ==
    enhance_contrast(v, VIS_OPTIONS[option].min, VIS_OPTIONS[option].max,
                     VIS_OPTIONS[option].gamma)

\* multiply(254).add(1).toUint8() on a fraction
toUint8(fraction) == ((254 * fraction[1]) \div fraction[2] + 1) % 256

\* The band handed to the export, NoData where it is masked
export_band(image, option) ==
    LET unmasked == unmask(image, no_data_value)
    IN  [p \in Pixels |->
            IF unmasked[p] = NoData THEN NoData
            ELSE toUint8(visualise_image(unmasked[p], option))]

\* Export.image.toCloudStorage with formatOptions noData: the file
written_file(band) ==
    [p \in Pixels |-> IF band[p] = NoData THEN no_data_value ELSE band[p]]

InitExport ==
    /\ IdleTide /\ IdleNoise /\ IdleLowTide /\ IdleComposite /\ IdleCloud /\ IdlePool
    /\ IdleDownload /\ IdlePipeline /\ IdleGlint /\ IdleShadow
    /\ export_normalised \in ExportImages
    /\ selected_vis_option \in {"TrueColour", "Infrared"}
    /\ export_pc = "call"
    /\ export_image = <<>>

ExportToCloud ==
    /\ export_pc = "call"
    /\ export_image' = written_file(export_band(export_normalised, selected_vis_option))
    /\ export_pc' = "started"
    /\ UNCHANGED <<export_normalised, selected_vis_option>>
    /\ UNCHANGED <<tideVars, noiseVars, lowTideVars, compositeVars, cloudVars, poolVars,
                   downloadVars, pipelineVars, glintVars, shadowVars>>

NextExport == ExportToCloud

SpecExport == InitExport /\ [][NextExport]_vars

\* C27: every valid pixel is written as an integer in 1..255 and every masked
\* pixel of the composite as the no-data value 0.
C27_QuantisedOrNoData ==
    export_pc = "started" =>
        \A p \in Pixels :
            IF export_normalised.value[p] = NoData
            THEN export_image[p] = no_data_value
            ELSE export_image[p] \in 1..255

(***************************************************************************)
(* The bound on the tiles in process (src/src/create-composite.py, lines   *)
(* 84-98).                                                                 *)
(***************************************************************************)

\* The chunk the reader hands tile t out in
ChunkOf(t) == (t - 1) \div THREADS + 1

Running == {t \in Tiles : future[t] = "running"}

\* C28: at most THREADS tiles are being processed at any moment, and no tile
\* of a later chunk is submitted or started before every tile of the chunks
\* before it has finished, successfully or not.
C28_BoundedChunks ==
    /\ Cardinality(Running) <= THREADS
    /\ \A t \in Tiles, u \in Tiles :
        (ChunkOf(t) < ChunkOf(u) /\ future[u] # "unread") =>
            future[t] \in {"returned", "raised"}

\* The second chunk is in process with THREADS tiles at once, after the first
\* chunk has finished.
C28_Witness ==
    /\ chunk = 2
    /\ Cardinality(Running) = THREADS
    /\ \A t \in Running : ChunkOf(t) = 2
    /\ \A t \in Tiles : ChunkOf(t) = 1 => future[t] = "returned"

(***************************************************************************)
(* Repeated entries in tide_image_list (src/src/processors/s2processor.py, *)
(* lines 198-235).                                                         *)
(***************************************************************************)

\* tide_image_list where its length is compared with min_images_in_collection
\* for the fallback: after the walk over the tide types and the addition of
\* the incoming-tide images
compared_tide_image_list ==
    LET min_n == lt_args.min_images_in_collection
        order == tide_type_order(lt_args.tide_type_focus)
    IN  add_incoming_tide(tide_properties_list, min_n,
                          gather_by_tide_type(tide_properties_list, order, 1, min_n, <<>>))

NoRepeatedEntry(list) == Cardinality(Range(list)) = Len(list)

\* C30: the list of selected images of a segment holds no image twice where
\* its length is compared with minImages or where it is truncated to maxImages:
\* its length is the number of distinct images it contributes.
C30_NoRepeatedImage ==
    lt_pc # "orbit" =>
        /\ NoRepeatedEntry(compared_tide_image_list)
        /\ NoRepeatedEntry(tide_image_list)

====
